---------------------------- MODULE Spec2Model ----------------------------
(***************************************************************************)
(* A model of the risk-reversal analysis engine in its two variants:       *)
(*   "full"  : src/api/analysis_engine.py          (pandas, text report)   *)
(*   "light" : src/api/analyze/analysis_engine.py  (plain lists, dict)     *)
(*                                                                         *)
(* Numbers.  Python floats are modelled as exact tagged rationals          *)
(* [t, n, d]: t = "num" is the rational n/d (d > 0, lowest terms),         *)
(* "nan" is float('nan'), "pinf"/"ninf" are the IEEE infinities that numpy *)
(* division by zero produces, and "none" is None or an absent key.         *)
(* Units: prices and strikes in cents, implied volatility in hundredths,   *)
(* delta and vega in ten-thousandths.                                      *)
(***************************************************************************)
EXTENDS Integers, Sequences, FiniteSets, TLC

VARIABLES
    engine,           \* which variant of the engine runs
    strategy,         \* "bullish" | "bearish"
    pc,               \* position of the modelled computation
    input_df,         \* the raw frame handed to process_df / process_options
    filtered,         \* what the sanitizer returned (retained contracts)
    fault,            \* "none", or the exception that left the function
    calls,            \* the calls handed to the Combination Generator
    puts,             \* the puts handed to the Combination Generator
    underlying_price, \* spot price
    days_to_exp,      \* calendar days from today to the expiration date
    combinations,     \* what the Combination Generator returned
    all_combinations, \* the candidate set handed to the Ranking Engine
    ranked_results,   \* what the Ranking Engine returned
    final_results,    \* the results handed to the report formatter
    reranked_results, \* what the Ranking Engine returns for ranked_results
    clock,            \* the time of day of datetime.now()
    expirations,      \* stock.options: the expiry list, as days from today
    exp_to_analyze,   \* the expiries selected for analysis
    analysed,         \* how many of exp_to_analyze the loop has gone through
    io_log,           \* the fetches made, in order
    chain_log,        \* per analysed expiry, what its chain fetch and analysis gave
    analysis_summary, \* the per-expiry summary of the text-report engine
    returned_at,      \* the return statement the run left through
    returned,         \* the value the run returned
    response          \* the `result` the web boundary answers with for the run

vars == << engine, strategy, pc, input_df, filtered, fault,
           calls, puts, underlying_price, days_to_exp, combinations,
           all_combinations, ranked_results, final_results, reranked_results,
           clock, expirations, exp_to_analyze, analysed, io_log, chain_log,
           analysis_summary, returned_at, returned, response >>

sanVars == << input_df, filtered >>
genVars == << calls, puts, underlying_price, days_to_exp, combinations >>
rankVars == << all_combinations, ranked_results, final_results, reranked_results >>
runVars == << clock, expirations, exp_to_analyze, analysed, io_log, chain_log,
             analysis_summary, returned_at, returned, response >>

\* no run of run_bullish_analysis / run_bearish_analysis is under way
NoRun ==
    /\ clock = "unread"
    /\ expirations = << >>
    /\ exp_to_analyze = << >>
    /\ analysed = 0
    /\ io_log = << >>
    /\ chain_log = << >>
    /\ analysis_summary = << >>
    /\ returned_at = "none"
    /\ returned = << >>
    /\ response = << >>

Engines == {"full", "light"}

-----------------------------------------------------------------------------
(* Float values                                                            *)

RECURSIVE GCD(_, _)
GCD(a, b) == IF b = 0 THEN a ELSE GCD(b, a % b)

IAbs(i) == IF i < 0 THEN -i ELSE i

\* the rational n/d, d # 0, in lowest terms with a positive denominator
Rat(n, d) ==
    LET g == GCD(IAbs(n), IAbs(d))
        s == IF d < 0 THEN -1 ELSE 1
    IN  [t |-> "num", n |-> (s * n) \div g, d |-> (s * d) \div g]

Num(v) == [t |-> "num", n |-> v, d |-> 1]
NaN == [t |-> "nan", n |-> 0, d |-> 1]
None == [t |-> "none", n |-> 0, d |-> 1]
PosInf == [t |-> "pinf", n |-> 0, d |-> 1]
NegInf == [t |-> "ninf", n |-> 0, d |-> 1]

IsNum(x) == x.t = "num"
IsNone(x) == x.t = "none"
IsNaN(x) == x.t = "nan"

\* x - y on floats (numpy / Python float semantics; no operand is None)
FSub(x, y) ==
    IF IsNaN(x) \/ IsNaN(y) THEN NaN
    ELSE IF IsNum(x) /\ IsNum(y) THEN Rat(x.n * y.d - y.n * x.d, x.d * y.d)
    ELSE IF IsNum(y) THEN x
    ELSE IF IsNum(x) THEN (IF y.t = "pinf" THEN NegInf ELSE PosInf)
    ELSE IF x.t = y.t THEN NaN ELSE x

FAdd(x, y) ==
    IF IsNaN(x) \/ IsNaN(y) THEN NaN
    ELSE IF IsNum(x) /\ IsNum(y) THEN Rat(x.n * y.d + y.n * x.d, x.d * y.d)
    ELSE IF IsNum(y) THEN x
    ELSE IF IsNum(x) THEN y
    ELSE IF x.t = y.t THEN x ELSE NaN

FNeg(x) ==
    IF IsNum(x) THEN Rat(-x.n, x.d)
    ELSE IF x.t = "pinf" THEN NegInf
    ELSE IF x.t = "ninf" THEN PosInf
    ELSE x

FAbs(x) ==
    IF IsNum(x) THEN Rat(IAbs(x.n), x.d)
    ELSE IF x.t = "ninf" THEN PosInf
    ELSE x

\* x / y as numpy float64 divides: a zero divisor gives +-inf or nan, no exception
NpDiv(x, y) ==
    IF IsNaN(x) \/ IsNaN(y) THEN NaN
    ELSE IF IsNum(x) /\ IsNum(y) THEN
        IF y.n # 0 THEN Rat(x.n * y.d, x.d * y.n)
        ELSE IF x.n > 0 THEN PosInf
        ELSE IF x.n < 0 THEN NegInf
        ELSE NaN
    ELSE IF IsNum(y) THEN (IF (y.n < 0) = (x.t = "pinf") THEN NegInf ELSE PosInf)
    ELSE IF IsNum(x) THEN Num(0)
    ELSE NaN

\* x < y on floats: every comparison with nan is False
FLt(x, y) ==
    IF IsNaN(x) \/ IsNaN(y) THEN FALSE
    ELSE IF IsNum(x) /\ IsNum(y) THEN x.n * y.d < y.n * x.d
    ELSE IF x.t = "ninf" THEN y.t # "ninf"
    ELSE IF y.t = "pinf" THEN x.t # "pinf"
    ELSE FALSE

FEq(x, y) ==
    IF IsNaN(x) \/ IsNaN(y) THEN FALSE
    ELSE IF IsNum(x) /\ IsNum(y) THEN x.n * y.d = y.n * x.d
    ELSE x.t = y.t

FLe(x, y) == FLt(x, y) \/ FEq(x, y)
FGt(x, y) == FLt(y, x)
FGe(x, y) == FLe(y, x)

-----------------------------------------------------------------------------
(* Chain Sanitizer: get_options_data.process_df / process_options          *)

Fields == {"strike", "bid", "ask", "impliedVolatility", "volume", "openInterest"}

\* implied_volatility > 0.01, in hundredths
IvMin == 1
\* (ask - bid) / ask < 0.6 = SpreadNum / SpreadDen
SpreadNum == 6
SpreadDen == 10

MaxRows == 2

\* A well-formed, liquid quote; the raw rows below differ from it in one or two cells.
NominalRow ==
    [strike |-> Num(11000), bid |-> Num(200), ask |-> Num(220),
     impliedVolatility |-> Num(30), volume |-> Num(0), openInterest |-> Num(5)]

RawRows ==
    {NominalRow}
    \cup {[NominalRow EXCEPT !.strike = NaN]}
    \cup {[NominalRow EXCEPT !.bid = v] : v \in {Num(0), Num(88), NaN}}
    \cup {[NominalRow EXCEPT !.ask = v] : v \in {Num(0), NaN}}
    \cup {[NominalRow EXCEPT !.impliedVolatility = v] : v \in {Num(1), NaN}}
    \cup {[NominalRow EXCEPT !.volume = v] : v \in {Num(3), NaN}}
    \cup {[NominalRow EXCEPT !.openInterest = v] : v \in {Num(0), NaN}}
    \cup {[NominalRow EXCEPT !.volume = Num(3), !.openInterest = Num(0)],
          [NominalRow EXCEPT !.bid = Num(0), !.ask = Num(0)]}

RowSeqs == UNION {[1..k -> RawRows] : k \in 0..MaxRows}

\* the frames a fetch can deliver: every column, or one column absent
ColumnSets == {Fields} \cup {Fields \ {f} : f \in Fields}

\* a DataFrame: its columns, and its rows (a cell of an absent column is None)
Frame(cols, rows) ==
    [columns |-> cols,
     rows |-> [i \in 1..Len(rows) |->
                 [f \in Fields |-> IF f \in cols THEN rows[i][f] ELSE None]]]

RawFrames == {Frame(cols, rows) : cols \in ColumnSets, rows \in RowSeqs}

\* the spread test of the mask, (df['ask'] - df['bid']) / df['ask'] < 0.6
SpreadBelowLimit(bid, ask) ==
    FLt(NpDiv(FSub(ask, bid), ask), Rat(SpreadNum, SpreadDen))

\* the liquidity test of the mask, (df['volume'] > 0) | (df['openInterest'] > 0)
HasInterest(volume, openInterest) ==
    FGt(volume, Num(0)) \/ FGt(openInterest, Num(0))

\* the row mask of process_df (full engine)
Mask(row) ==
    /\ HasInterest(row.volume, row.openInterest)
    /\ FGt(row.impliedVolatility, Num(IvMin))
    /\ FGt(row.bid, Num(0))
    /\ SpreadBelowLimit(row.bid, row.ask)

\* df.dropna(subset=['impliedVolatility', 'bid', 'ask'])
DropNa(rows) ==
    SelectSeq(rows, LAMBDA r : ~IsNaN(r.impliedVolatility) /\ ~IsNaN(r.bid) /\ ~IsNaN(r.ask))

\* process_df: [fault, rows]; a KeyError leaves get_options_data and ends the run
process_df(df) ==
    IF Len(df.rows) = 0 THEN [fault |-> "none", rows |-> << >>]
    ELSE IF {"impliedVolatility", "bid", "ask"} \ df.columns # {}
         THEN [fault |-> "KeyError", rows |-> << >>]
    ELSE LET kept == DropNa(df.rows) IN
         IF Len(kept) = 0 THEN [fault |-> "none", rows |-> << >>]
         ELSE IF {"volume", "openInterest"} \ df.columns # {}
              THEN [fault |-> "KeyError", rows |-> << >>]
         ELSE LET out == SelectSeq(kept, Mask) IN
              IF Len(out) # 0 /\ "strike" \notin df.columns
              THEN [fault |-> "KeyError", rows |-> << >>]
              ELSE [fault |-> "none", rows |-> out]

\* option.get(key, default) on a row of the frame
Get(df, row, key, default) == IF key \in df.columns THEN row[key] ELSE default

\* the three `continue` tests of process_options (light engine), negated
LightKeeps(df, row) ==
    LET implied_vol == Get(df, row, "impliedVolatility", None)
        bid == Get(df, row, "bid", Num(0))
        ask == Get(df, row, "ask", Num(0))
        volume == Get(df, row, "volume", Num(0))
        open_interest == Get(df, row, "openInterest", Num(0))
    IN  /\ ~(\/ IsNone(implied_vol) \/ FLe(implied_vol, Num(IvMin))
             \/ FLe(bid, Num(0))
             \/ FLe(ask, Num(0)))
        /\ ~(FLe(volume, Num(0)) /\ FLe(open_interest, Num(0)))
        /\ ~(\/ FLe(ask, Num(0))
             \/ FGe(NpDiv(FSub(ask, bid), ask), Rat(SpreadNum, SpreadDen)))

\* the dict appended to valid_options
LightRecord(df, row) ==
    [strike |-> Get(df, row, "strike", Num(0)),
     bid |-> Get(df, row, "bid", Num(0)),
     ask |-> Get(df, row, "ask", Num(0)),
     impliedVolatility |-> Get(df, row, "impliedVolatility", None),
     volume |-> Get(df, row, "volume", Num(0)),
     openInterest |-> Get(df, row, "openInterest", Num(0))]

RECURSIVE LightLoop(_, _, _)
LightLoop(df, index, valid_options) ==
    IF index > Len(df.rows) THEN valid_options
    ELSE LightLoop(df, index + 1,
                   IF LightKeeps(df, df.rows[index])
                   THEN Append(valid_options, LightRecord(df, df.rows[index]))
                   ELSE valid_options)

\* process_options: every row is handled inside its own try/except
process_options(df) ==
    [fault |-> "none", rows |-> LightLoop(df, 1, << >>)]

SanInit ==
    /\ engine \in Engines
    /\ strategy = "bullish"
    /\ pc = "sanitize"
    /\ input_df \in RawFrames
    /\ filtered = << >>
    /\ fault = "none"
    /\ calls = << >>
    /\ puts = << >>
    /\ underlying_price = Num(0)
    /\ days_to_exp = 0
    /\ combinations = << >>
    /\ all_combinations = << >>
    /\ ranked_results = << >>
    /\ final_results = << >>
    /\ reranked_results = << >>
    /\ NoRun

SanitizeFull ==
    /\ pc = "sanitize"
    /\ engine = "full"
    /\ LET r == process_df(input_df) IN
        /\ filtered' = r.rows
        /\ fault' = r.fault
    /\ pc' = "sanitized"
    /\ UNCHANGED << engine, strategy, input_df, genVars, rankVars, runVars >>

SanitizeLight ==
    /\ pc = "sanitize"
    /\ engine = "light"
    /\ LET r == process_options(input_df) IN
        /\ filtered' = r.rows
        /\ fault' = r.fault
    /\ pc' = "sanitized"
    /\ UNCHANGED << engine, strategy, input_df, genVars, rankVars, runVars >>

SanNext == SanitizeFull \/ SanitizeLight

SpecSan == SanInit /\ [][SanNext]_vars

-----------------------------------------------------------------------------
(* Claims about the Chain Sanitizer                                        *)

\* the retention predicate as the specification states it, on exact numbers
SpecPredicate(c) ==
    /\ IsNum(c.impliedVolatility) /\ c.impliedVolatility.n > IvMin * c.impliedVolatility.d
    /\ IsNum(c.bid) /\ c.bid.n > 0
    /\ IsNum(c.ask) /\ c.ask.n > 0
    /\ SpreadDen * (c.ask.n * c.bid.d - c.bid.n * c.ask.d) * c.ask.d
         < SpreadNum * c.ask.n * (c.ask.d * c.bid.d)
    /\ \/ IsNum(c.volume) /\ c.volume.n > 0
       \/ IsNum(c.openInterest) /\ c.openInterest.n > 0

Retained == {filtered[i] : i \in 1..Len(filtered)}

\* every cell of the raw frame is a number and no column is absent
WellFormedFrame(df) ==
    /\ df.columns = Fields
    /\ \A i \in 1..Len(df.rows) : \A f \in Fields : IsNum(df.rows[i][f])

\* a raw row with a required field absent, null or not-a-number
Malformed(df, row) == \E f \in Fields : f \notin df.columns \/ ~IsNum(row[f])

\* C1: every contract the sanitizer retains has implied_volatility > 0.01,
\* bid > 0, ask > 0, (ask-bid)/ask < 0.6 and (volume > 0 or open_interest > 0);
\* in particular no contract with ask = 0 is retained.  Stated for raw frames
\* whose cells are all numbers (null cells are the subject of C2).
C1_RetainedSatisfyPredicate ==
    (pc = "sanitized" /\ WellFormedFrame(input_df))
        => \A c \in Retained : SpecPredicate(c)

\* C2: a raw contract with a required field absent, null or NaN is dropped on
\* its own: the sanitizer does not fail, and the contract is not retained.
C2_MalformedDroppedAlone ==
    pc = "sanitized" =>
        /\ fault = "none"
        /\ \A i \in 1..Len(input_df.rows) :
              Malformed(input_df, input_df.rows[i]) =>
                  /\ input_df.rows[i] \notin Retained
                  /\ LightRecord(input_df, input_df.rows[i]) \notin Retained

-----------------------------------------------------------------------------
(* Pricing Model: d1 / bs_vega / bs_delta, with q = 0 and r = 0.045        *)

\* a time to expiry with no floor
TimeToExpiryUnfloored(days) == Rat(days, 365)

\* T = max((exp_date - today).days / 365.0, 1 / (365 * 24))
TimeToExpiry(days) ==
    IF days * 24 > 1 THEN Rat(days, 365) ELSE Rat(1, 365 * 24)

\* << norm.cdf(d1), S * norm.pdf(d1) * sqrt(T) / 100 >> in ten-thousandths, rounded,
\* for T > 0 and sigma > 0: the values the code computes at S = 100.00, r = 0.045
D1Values(S, K, T, sigma) ==
    CASE T = Rat(6, 73) /\ K = Num(11000) /\ sigma = Num(30) -> << 1534, 678 >>
    [] T = Rat(6, 73) /\ K = Num(10000) /\ sigma = Num(30) -> << 5343, 1140 >>
    [] T = Rat(6, 73) /\ K = Num(17500) /\ sigma = Num(60) -> << 8, 8 >>
    [] T = Rat(6, 73) /\ K = Num(12500) /\ sigma = Num(60) -> << 1171, 564 >>
    [] T = Rat(6, 73) /\ K = Num(12500) /\ sigma = Num(30) -> << 61, 49 >>
    [] T = Rat(6, 73) /\ K = Num(9000) /\ sigma = Num(35) -> << 8722, 599 >>
    [] T = Rat(6, 73) /\ K = Num(10000) /\ sigma = Num(35) -> << 5347, 1139 >>
    [] T = Rat(6, 73) /\ K = Num(2500) /\ sigma = Num(60) -> << 10000, 0 >>
    [] T = Rat(6, 73) /\ K = Num(9500) /\ sigma = Num(35) -> << 7252, 956 >>
    [] T = Rat(6, 73) /\ K = Num(7500) /\ sigma = Num(30) -> << 9997, 3 >>
    [] T = Rat(1, 8760) /\ K = Num(11000) /\ sigma = Num(30) -> << 0, 0 >>
    [] T = Rat(1, 8760) /\ K = Num(10000) /\ sigma = Num(30) -> << 5013, 43 >>
    [] T = Rat(1, 8760) /\ K = Num(17500) /\ sigma = Num(60) -> << 0, 0 >>
    [] T = Rat(1, 8760) /\ K = Num(12500) /\ sigma = Num(60) -> << 0, 0 >>
    [] T = Rat(1, 8760) /\ K = Num(12500) /\ sigma = Num(30) -> << 0, 0 >>
    [] T = Rat(1, 8760) /\ K = Num(9000) /\ sigma = Num(35) -> << 10000, 0 >>
    [] T = Rat(1, 8760) /\ K = Num(10000) /\ sigma = Num(35) -> << 5013, 43 >>
    [] T = Rat(1, 8760) /\ K = Num(2500) /\ sigma = Num(60) -> << 10000, 0 >>
    [] T = Rat(1, 8760) /\ K = Num(9500) /\ sigma = Num(35) -> << 10000, 0 >>
    [] T = Rat(1, 8760) /\ K = Num(7500) /\ sigma = Num(30) -> << 10000, 0 >>

\* delta and vega of 1.0, in ten-thousandths
GreekUnit == 10000

\* bs_vega; neither K nor sigma is None.  A nan operand fails both guards and
\* propagates through d1.
bs_vega(S, K, T, sigma) ==
    IF FLe(T, Num(0)) \/ FLe(sigma, Num(0)) THEN Num(0)
    ELSE IF IsNaN(K) \/ IsNaN(sigma) THEN NaN
    ELSE Num(D1Values(S, K, T, sigma)[2])

\* a delta whose put branch lacks the `- 1`
bs_delta_put_as_call(S, K, T, sigma, option_type) ==
    IF FLe(T, Num(0)) \/ FLe(sigma, Num(0)) THEN Num(0)
    ELSE Num(D1Values(S, K, T, sigma)[1])

\* a delta that takes an expired at-the-money contract for one in the money
bs_delta_expired_at_the_money(S, K, T, sigma, option_type) ==
    IF FLe(T, Num(0)) THEN
        (IF FGe(S, K) /\ option_type = "call" THEN Num(GreekUnit)
         ELSE IF FLe(S, K) /\ option_type = "put" THEN Num(-GreekUnit)
         ELSE Num(0))
    ELSE LET cdf == IF FLe(sigma, Num(0))
                    THEN (IF FGt(S, K) THEN GreekUnit ELSE 0)
                    ELSE D1Values(S, K, T, sigma)[1]
         IN  IF option_type = "call" THEN Num(cdf) ELSE Num(cdf - GreekUnit)

\* bs_delta; neither K nor sigma is None
bs_delta(S, K, T, sigma, option_type) ==
    IF FLe(T, Num(0)) THEN
        (IF FGt(S, K) /\ option_type = "call" THEN Num(GreekUnit)
         ELSE IF FLt(S, K) /\ option_type = "put" THEN Num(-GreekUnit)
         ELSE Num(0))
    ELSE IF ~FLe(sigma, Num(0)) /\ (IsNaN(K) \/ IsNaN(sigma)) THEN NaN
    ELSE LET cdf == IF FLe(sigma, Num(0))
                    THEN (IF FGt(S, K) THEN GreekUnit ELSE 0)
                    ELSE D1Values(S, K, T, sigma)[1]
         IN  IF option_type = "call" THEN Num(cdf) ELSE Num(cdf - GreekUnit)

-----------------------------------------------------------------------------
(* Combination Generator                                                   *)

\* abs(net_cost) > 20, in cents
MaxNetCost == 2000
\* net_delta <= 0.1 (bullish), net_delta >= -0.1 (bearish), in ten-thousandths
MinNetDelta == 1000
\* net_vega > 0.01 (bearish), in ten-thousandths
MaxBearishVega == 100
\* max_strike_distance = underlying_price * 0.75 = DistanceNum / DistanceDen
DistanceNum == 75
DistanceDen == 100

\* the Greek annotation of one leg
Annotate(c, S, T, option_type) ==
    [strike |-> c.strike, bid |-> c.bid, ask |-> c.ask,
     impliedVolatility |-> c.impliedVolatility,
     vega |-> bs_vega(S, c.strike, T, c.impliedVolatility),
     delta |-> bs_delta(S, c.strike, T, c.impliedVolatility, option_type)]

AnnotateAll(chain, S, T, option_type) ==
    [i \in 1..Len(chain) |-> Annotate(chain[i], S, T, option_type)]

\* the Greek loop raises on a leg whose strike or implied volatility is None
\* (or absent): TypeError in bs_vega, KeyError for an absent key
GreekLoopRaises(chain) ==
    \E i \in 1..Len(chain) : IsNone(chain[i].strike) \/ IsNone(chain[i].impliedVolatility)

max_strike_distance(S) == Rat(S.n * DistanceNum, S.d * DistanceDen)

\* mutant of OtmCalls: strike >= spot admits the at-the-money call
OtmCallsAtTheMoney(chain, S) ==
    SelectSeq(SelectSeq(chain, LAMBDA c : FGe(c.strike, S)),
              LAMBDA c : FLt(c.strike, FAdd(S, max_strike_distance(S))))

\* calls with strike > spot, then strike < spot + max_strike_distance
OtmCalls(chain, S) ==
    SelectSeq(SelectSeq(chain, LAMBDA c : FGt(c.strike, S)),
              LAMBDA c : FLt(c.strike, FAdd(S, max_strike_distance(S))))

\* puts with strike < spot, then strike > spot - max_strike_distance
OtmPuts(chain, S) ==
    SelectSeq(SelectSeq(chain, LAMBDA p : FLt(p.strike, S)),
              LAMBDA p : FGt(p.strike, FSub(S, max_strike_distance(S))))

\* the pairs of two nested loops, outer loop first
AllPairs(outer, inner) ==
    [k \in 1..(Len(outer) * Len(inner)) |->
        << outer[((k - 1) \div Len(inner)) + 1], inner[((k - 1) % Len(inner)) + 1] >>]

\* efficiency = -net_cost / strike_diff if strike_diff > 0 else 0
Efficiency(net_cost, strike_diff) ==
    IF FGt(strike_diff, Num(0)) THEN NpDiv(FNeg(net_cost), strike_diff) ELSE Num(0)

PriceCellIsNone(call_row, put_row) ==
    IsNone(call_row.bid) \/ IsNone(call_row.ask) \/ IsNone(put_row.bid) \/ IsNone(put_row.ask)

\* full engine: << combo >>, or << >> where the function returns None
\* (its except clause catches the TypeError of a None price cell)
create_bullish_strategy_combination(call_row, put_row) ==
    IF PriceCellIsNone(call_row, put_row) THEN << >>
    ELSE LET net_cost == FSub(call_row.ask, put_row.bid)
             strike_diff == FSub(call_row.strike, put_row.strike)
         IN << [long_call_strike |-> call_row.strike,
                short_put_strike |-> put_row.strike,
                net_cost |-> net_cost,
                net_delta |-> FSub(call_row.delta, put_row.delta),
                net_vega |-> FSub(call_row.vega, put_row.vega),
                max_loss_down |-> FSub(put_row.strike, FSub(put_row.bid, call_row.ask)),
                breakeven |-> FAdd(call_row.strike, net_cost),
                efficiency |-> Efficiency(net_cost, strike_diff)] >>

\* mutant of create_bearish_strategy_combination: the bullish breakeven formula kept
create_bearish_strategy_combination_breakeven(put_row, call_row) ==
    IF PriceCellIsNone(call_row, put_row) THEN << >>
    ELSE LET net_cost == FSub(put_row.ask, call_row.bid)
             strike_diff == FSub(call_row.strike, put_row.strike)
         IN << [long_put_strike |-> put_row.strike,
                short_call_strike |-> call_row.strike,
                net_cost |-> net_cost,
                net_delta |-> FSub(put_row.delta, call_row.delta),
                net_vega |-> FSub(put_row.vega, call_row.vega),
                max_loss_up |-> FAdd(call_row.strike, FSub(call_row.bid, put_row.ask)),
                breakeven |-> FAdd(put_row.strike, net_cost),
                efficiency |-> Efficiency(net_cost, strike_diff)] >>

create_bearish_strategy_combination(put_row, call_row) ==
    IF PriceCellIsNone(call_row, put_row) THEN << >>
    ELSE LET net_cost == FSub(put_row.ask, call_row.bid)
             strike_diff == FSub(call_row.strike, put_row.strike)
         IN << [long_put_strike |-> put_row.strike,
                short_call_strike |-> call_row.strike,
                net_cost |-> net_cost,
                net_delta |-> FSub(put_row.delta, call_row.delta),
                net_vega |-> FSub(put_row.vega, call_row.vega),
                max_loss_up |-> FAdd(call_row.strike, FSub(call_row.bid, put_row.ask)),
                breakeven |-> FSub(put_row.strike, net_cost),
                efficiency |-> Efficiency(net_cost, strike_diff)] >>

\* mutant of is_valid_bullish_combo: abs(net_cost) >= 20 rejects a cost of exactly 20
is_valid_bullish_combo_strict_cost(combo) ==
    /\ ~FGe(FAbs(combo.net_cost), Num(MaxNetCost))
    /\ ~(FLe(combo.net_delta, Num(MinNetDelta)) \/ FLe(combo.net_vega, Num(0)))

is_valid_bullish_combo(combo) ==
    /\ ~FGt(FAbs(combo.net_cost), Num(MaxNetCost))
    /\ ~(FLe(combo.net_delta, Num(MinNetDelta)) \/ FLe(combo.net_vega, Num(0)))

\* mutant of is_valid_bearish_combo: the vega bound of the bullish gate mirrored, net_vega > 0
is_valid_bearish_combo_zero_vega(combo) ==
    /\ ~FGt(FAbs(combo.net_cost), Num(MaxNetCost))
    /\ ~(FGe(combo.net_delta, Num(-MinNetDelta)) \/ FGt(combo.net_vega, Num(0)))

is_valid_bearish_combo(combo) ==
    /\ ~FGt(FAbs(combo.net_cost), Num(MaxNetCost))
    /\ ~(FGe(combo.net_delta, Num(-MinNetDelta)) \/ FGt(combo.net_vega, Num(MaxBearishVega)))

\* combo.update({... 'expiration': expiration_date, 'days_to_exp': days_to_exp})
Tag(combo, expiration_date, days) ==
    [f \in DOMAIN combo \cup {"expiration", "days_to_exp"} |->
        IF f = "expiration" THEN expiration_date
        ELSE IF f = "days_to_exp" THEN days ELSE combo[f]]

\* the combinations a pair contributes in the full engine: none or one
FullBullishOfPair(pair, expiration_date, days) ==
    LET call == pair[1]
        put == pair[2]
        made == create_bullish_strategy_combination(call, put)
    IN  IF FLe(call.strike, put.strike) THEN << >>
        ELSE IF Len(made) = 1 /\ is_valid_bullish_combo(made[1])
             THEN << Tag(made[1], expiration_date, days) >>
        ELSE << >>

FullBearishOfPair(pair, expiration_date, days) ==
    LET put == pair[1]
        call == pair[2]
        made == create_bearish_strategy_combination(put, call)
    IN  IF FGe(put.strike, call.strike) THEN << >>
        ELSE IF Len(made) = 1 /\ is_valid_bearish_combo(made[1])
             THEN << Tag(made[1], expiration_date, days) >>
        ELSE << >>

\* light engine, the body of the inner loop (bullish)
LightBullishOfPair(pair, expiration_date, days) ==
    LET call == pair[1]
        put == pair[2]
        net_cost == FSub(call.ask, put.bid)
        strike_diff == FSub(call.strike, put.strike)
        efficiency == Efficiency(net_cost, strike_diff)
        net_delta == FSub(call.delta, put.delta)
        net_vega == FSub(call.vega, put.vega)
    IN  IF FLe(call.strike, put.strike) THEN << >>
        ELSE IF FGt(FAbs(net_cost), Num(MaxNetCost)) THEN << >>
        ELSE IF FLe(net_delta, Num(MinNetDelta)) \/ FLe(net_vega, Num(0)) THEN << >>
        ELSE << [long_call_strike |-> call.strike,
                 short_put_strike |-> put.strike,
                 net_cost |-> net_cost,
                 net_delta |-> net_delta,
                 net_vega |-> net_vega,
                 efficiency |-> efficiency,
                 breakeven |-> FAdd(call.strike, net_cost),
                 expiration |-> expiration_date,
                 days_to_exp |-> days] >>

\* light engine, the body of the inner loop (bearish)
LightBearishOfPair(pair, expiration_date, days) ==
    LET put == pair[1]
        call == pair[2]
        net_cost == FSub(put.ask, call.bid)
        strike_diff == FSub(call.strike, put.strike)
        efficiency == Efficiency(net_cost, strike_diff)
        net_delta == FSub(put.delta, call.delta)
        net_vega == FSub(put.vega, call.vega)
    IN  IF FGe(put.strike, call.strike) THEN << >>
        ELSE IF FGt(FAbs(net_cost), Num(MaxNetCost)) THEN << >>
        ELSE IF FGe(net_delta, Num(-MinNetDelta)) \/ FGt(net_vega, Num(MaxBearishVega))
             THEN << >>
        ELSE << [long_put_strike |-> put.strike,
                 short_call_strike |-> call.strike,
                 net_cost |-> net_cost,
                 net_delta |-> net_delta,
                 net_vega |-> net_vega,
                 efficiency |-> efficiency,
                 breakeven |-> FSub(put.strike, net_cost),
                 expiration |-> expiration_date,
                 days_to_exp |-> days] >>

RECURSIVE Flatten(_)
Flatten(seqs) == IF seqs = << >> THEN << >> ELSE Head(seqs) \o Flatten(Tail(seqs))

\* the light engine's subtraction of the two quoted prices raises TypeError
\* (KeyError for an absent key) on the first pair that holds a None
LightPairRaises(pairs, longField, shortField) ==
    \E k \in 1..Len(pairs) : IsNone(pairs[k][1][longField]) \/ IsNone(pairs[k][2][shortField])

Ok(combos) == [fault |-> "none", combinations |-> combos]
Raised(e) == [fault |-> e, combinations |-> << >>]

\* analyze_bullish_risk_reversal of src/api/analysis_engine.py
FullAnalyzeBullish(cs, ps, S, expiration_date, days) ==
    IF GreekLoopRaises(cs) \/ GreekLoopRaises(ps) THEN Raised("TypeError")
    ELSE LET T == TimeToExpiry(days)
             otm_calls == OtmCalls(AnnotateAll(cs, S, T, "call"), S)
             otm_puts == OtmPuts(AnnotateAll(ps, S, T, "put"), S)
             pairs == AllPairs(otm_calls, otm_puts)
         IN  IF Len(otm_calls) = 0 \/ Len(otm_puts) = 0 THEN Ok(<< >>)
             ELSE Ok(Flatten([k \in 1..Len(pairs) |->
                                FullBullishOfPair(pairs[k], expiration_date, days)]))

\* analyze_bearish_risk_reversal of src/api/analysis_engine.py
FullAnalyzeBearish(cs, ps, S, expiration_date, days) ==
    IF GreekLoopRaises(cs) \/ GreekLoopRaises(ps) THEN Raised("TypeError")
    ELSE LET T == TimeToExpiry(days)
             otm_calls == OtmCalls(AnnotateAll(cs, S, T, "call"), S)
             otm_puts == OtmPuts(AnnotateAll(ps, S, T, "put"), S)
             pairs == AllPairs(otm_puts, otm_calls)
         IN  IF Len(otm_calls) = 0 \/ Len(otm_puts) = 0 THEN Ok(<< >>)
             ELSE Ok(Flatten([k \in 1..Len(pairs) |->
                                FullBearishOfPair(pairs[k], expiration_date, days)]))

\* analyze_bullish_risk_reversal of src/api/analyze/analysis_engine.py
LightAnalyzeBullish(cs, ps, S, expiration_date, days) ==
    IF GreekLoopRaises(cs) \/ GreekLoopRaises(ps) THEN Raised("TypeError")
    ELSE LET T == TimeToExpiry(days)
             otm_calls == OtmCalls(AnnotateAll(cs, S, T, "call"), S)
             otm_puts == OtmPuts(AnnotateAll(ps, S, T, "put"), S)
             pairs == AllPairs(otm_calls, otm_puts)
         IN  IF Len(otm_calls) = 0 \/ Len(otm_puts) = 0 THEN Ok(<< >>)
             ELSE IF LightPairRaises(pairs, "ask", "bid") THEN Raised("TypeError")
             ELSE Ok(Flatten([k \in 1..Len(pairs) |->
                                LightBullishOfPair(pairs[k], expiration_date, days)]))

\* analyze_bearish_risk_reversal of src/api/analyze/analysis_engine.py
LightAnalyzeBearish(cs, ps, S, expiration_date, days) ==
    IF GreekLoopRaises(cs) \/ GreekLoopRaises(ps) THEN Raised("TypeError")
    ELSE LET T == TimeToExpiry(days)
             otm_calls == OtmCalls(AnnotateAll(cs, S, T, "call"), S)
             otm_puts == OtmPuts(AnnotateAll(ps, S, T, "put"), S)
             pairs == AllPairs(otm_puts, otm_calls)
         IN  IF Len(otm_calls) = 0 \/ Len(otm_puts) = 0 THEN Ok(<< >>)
             ELSE IF LightPairRaises(pairs, "ask", "bid") THEN Raised("TypeError")
             ELSE Ok(Flatten([k \in 1..Len(pairs) |->
                                LightBearishOfPair(pairs[k], expiration_date, days)]))


\* the expiration date handed to the generator
ExpirationDate == "E1"

Strategies == {"bullish", "bearish"}

MaxCalls == 2
MaxPuts == 1

\* the quote of the specification's scenario: spot 100.00, 30 days to expiry;
\* an expiration of today and one of yesterday as well
Spots == {Num(10000)}
DaysSet == {-1, 0, 30}

Leg(strike, bid, ask, iv) ==
    [strike |-> strike, bid |-> bid, ask |-> ask, impliedVolatility |-> iv]

NominalCall == Leg(Num(11000), Num(200), Num(220), Num(30))
NominalPut == Leg(Num(9000), Num(150), Num(170), Num(35))

\* a leg with one cell null: nan (a DataFrame cell) or None (a dict value)
OneCellNull(leg) ==
    << [leg EXCEPT !.strike = NaN], [leg EXCEPT !.strike = None],
       [leg EXCEPT !.impliedVolatility = NaN], [leg EXCEPT !.impliedVolatility = None],
       [leg EXCEPT !.bid = NaN], [leg EXCEPT !.bid = None],
       [leg EXCEPT !.ask = NaN], [leg EXCEPT !.ask = None] >>

\* the calls of a chain, in listing order
CallCatalogue ==
    << Leg(Num(10000), Num(200), Num(220), Num(30)),
       NominalCall,
       Leg(Num(11000), Num(2170), Num(2190), Num(30)),
       Leg(Num(12500), Num(200), Num(220), Num(30)),
       Leg(Num(12500), Num(200), Num(220), Num(60)),
       Leg(Num(17500), Num(200), Num(220), Num(60)) >>
    \o OneCellNull(NominalCall)

\* the puts of a chain, in listing order
PutCatalogue ==
    << Leg(Num(2500), Num(150), Num(170), Num(60)),
       Leg(Num(7500), Num(150), Num(170), Num(30)),
       NominalPut,
       Leg(Num(9000), Num(190), Num(210), Num(35)),
       Leg(Num(9000), Num(2200), Num(2220), Num(35)),
       Leg(Num(9500), Num(150), Num(170), Num(35)),
       Leg(Num(10000), Num(150), Num(170), Num(35)) >>
    \o OneCellNull(NominalPut)

Range(s) == {s[i] : i \in 1..Len(s)}

\* the strictly increasing index sequences over lo..n of length at most max
RECURSIVE IncreasingIndices(_, _, _)
IncreasingIndices(n, lo, max) ==
    IF max = 0 THEN {<< >>}
    ELSE {<< >>} \cup
         UNION {{<< i >> \o rest : rest \in IncreasingIndices(n, i + 1, max - 1)} : i \in lo..n}

\* the chains of at most `max` distinct legs of a catalogue, in its order
Chains(catalogue, max) ==
    {[k \in 1..Len(ix) |-> catalogue[ix[k]]] :
        ix \in IncreasingIndices(Len(catalogue), 1, max)}

\* the chains of an expiration of today or of the past hold at most one call
GenInit ==
    /\ engine \in Engines
    /\ strategy \in Strategies
    /\ pc = "generate"
    /\ input_df = Frame(Fields, << >>)
    /\ filtered = << >>
    /\ fault = "none"
    /\ calls \in Chains(CallCatalogue, MaxCalls)
    /\ puts \in Chains(PutCatalogue, MaxPuts)
    /\ underlying_price \in Spots
    /\ days_to_exp \in DaysSet
    /\ days_to_exp <= 0 => Len(calls) <= 1
    /\ combinations = << >>
    /\ all_combinations = << >>
    /\ ranked_results = << >>
    /\ final_results = << >>
    /\ reranked_results = << >>
    /\ NoRun

Generate(result) ==
    /\ pc = "generate"
    /\ combinations' = result.combinations
    /\ fault' = result.fault
    /\ pc' = "generated"
    /\ UNCHANGED << engine, strategy, sanVars, calls, puts, underlying_price, days_to_exp,
                    rankVars, runVars >>

GenerateFullBullish ==
    /\ engine = "full" /\ strategy = "bullish"
    /\ Generate(FullAnalyzeBullish(calls, puts, underlying_price, ExpirationDate, days_to_exp))

GenerateFullBearish ==
    /\ engine = "full" /\ strategy = "bearish"
    /\ Generate(FullAnalyzeBearish(calls, puts, underlying_price, ExpirationDate, days_to_exp))

GenerateLightBullish ==
    /\ engine = "light" /\ strategy = "bullish"
    /\ Generate(LightAnalyzeBullish(calls, puts, underlying_price, ExpirationDate, days_to_exp))

GenerateLightBearish ==
    /\ engine = "light" /\ strategy = "bearish"
    /\ Generate(LightAnalyzeBearish(calls, puts, underlying_price, ExpirationDate, days_to_exp))

GenNext ==
    \/ GenerateFullBullish
    \/ GenerateFullBearish
    \/ GenerateLightBullish
    \/ GenerateLightBearish

SpecGen == GenInit /\ [][GenNext]_vars

-----------------------------------------------------------------------------
(* Claims about the Combination Generator                                  *)

Returned == Range(combinations)

\* the strikes of the call leg and of the put leg of a returned combination
CallStrike(combo) ==
    IF strategy = "bullish" THEN combo.long_call_strike ELSE combo.short_call_strike
PutStrike(combo) ==
    IF strategy = "bullish" THEN combo.short_put_strike ELSE combo.long_put_strike

\* every cell of the leg is a number (in the model's integer units)
NumericLeg(leg) ==
    IsNum(leg.strike) /\ IsNum(leg.bid) /\ IsNum(leg.ask) /\ IsNum(leg.impliedVolatility)

NumericChains == \A leg \in Range(calls) \cup Range(puts) : NumericLeg(leg)

\* OTM and within 0.75 * spot of the spot price, in integers
EligibleCall(c) ==
    /\ c.strike.n > underlying_price.n
    /\ DistanceDen * c.strike.n < (DistanceDen + DistanceNum) * underlying_price.n
EligiblePut(p) ==
    /\ p.strike.n < underlying_price.n
    /\ DistanceDen * p.strike.n > (DistanceDen - DistanceNum) * underlying_price.n

DeltaOf(leg, option_type) ==
    bs_delta(underlying_price, leg.strike, TimeToExpiry(days_to_exp),
             leg.impliedVolatility, option_type).n
VegaOf(leg) ==
    bs_vega(underlying_price, leg.strike, TimeToExpiry(days_to_exp), leg.impliedVolatility).n

EligiblePairs ==
    {pair \in Range(calls) \X Range(puts) : EligibleCall(pair[1]) /\ EligiblePut(pair[2])}

\* << call strike, put strike, net_cost, net_delta, net_vega >> of a pair of legs
BullishKey(c, p) ==
    << c.strike.n, p.strike.n, c.ask.n - p.bid.n,
       DeltaOf(c, "call") - DeltaOf(p, "put"), VegaOf(c) - VegaOf(p) >>
BearishKey(c, p) ==
    << c.strike.n, p.strike.n, p.ask.n - c.bid.n,
       DeltaOf(p, "put") - DeltaOf(c, "call"), VegaOf(p) - VegaOf(c) >>

KeyOf(combo) ==
    << CallStrike(combo).n, PutStrike(combo).n, combo.net_cost.n,
       combo.net_delta.n, combo.net_vega.n >>

BullishAccepts(key) ==
    IAbs(key[3]) <= MaxNetCost /\ key[4] > MinNetDelta /\ key[5] > 0
BearishAccepts(key) ==
    IAbs(key[3]) <= MaxNetCost /\ key[4] < -MinNetDelta /\ key[5] <= MaxBearishVega

BullishExpected ==
    {BullishKey(pair[1], pair[2]) : pair \in {q \in EligiblePairs :
                                                BullishAccepts(BullishKey(q[1], q[2]))}}
BearishExpected ==
    {BearishKey(pair[1], pair[2]) : pair \in {q \in EligiblePairs :
                                                BearishAccepts(BearishKey(q[1], q[2]))}}

\* C3: every returned combination has 0.25*spot < put strike < spot < call strike
\* < 1.75*spot; so the call strike exceeds the put strike and no leg is at the money.
C3_StrikesStraddleSpot ==
    pc = "generated" =>
        \A combo \in Returned :
            /\ IsNum(CallStrike(combo)) /\ IsNum(PutStrike(combo))
            /\ 4 * PutStrike(combo).n > underlying_price.n * PutStrike(combo).d
            /\ PutStrike(combo).n < underlying_price.n * PutStrike(combo).d
            /\ CallStrike(combo).n > underlying_price.n * CallStrike(combo).d
            /\ 4 * CallStrike(combo).n < 7 * underlying_price.n * CallStrike(combo).d
            /\ FLt(PutStrike(combo), CallStrike(combo))

\* C3 witness: a combination is returned from a chain that also lists a call at
\* the money or at the 1.75*spot limit
C3_Witness ==
    /\ pc = "generated"
    /\ Len(combinations) > 0
    /\ \E c \in Range(calls) :
          IsNum(c.strike) /\ (c.strike = underlying_price \/ 4 * c.strike.n = 7 * underlying_price.n)

EconomicsOf(combo, c, p) ==
    LET long == IF strategy = "bullish" THEN c ELSE p
        short == IF strategy = "bullish" THEN p ELSE c
        longDelta == DeltaOf(long, IF strategy = "bullish" THEN "call" ELSE "put")
        shortDelta == DeltaOf(short, IF strategy = "bullish" THEN "put" ELSE "call")
        cost == long.ask.n - short.bid.n
    IN  /\ CallStrike(combo) = c.strike /\ PutStrike(combo) = p.strike
        /\ combo.net_cost = Num(cost)
        /\ combo.net_delta = Num(longDelta - shortDelta)
        /\ combo.net_vega = Num(VegaOf(long) - VegaOf(short))
        /\ combo.breakeven = Num(IF strategy = "bullish" THEN c.strike.n + cost
                                 ELSE p.strike.n - cost)
        /\ c.strike.n - p.strike.n > 0
        /\ IsNum(combo.efficiency)
        /\ combo.efficiency.n * (c.strike.n - p.strike.n) = -cost * combo.efficiency.d
        /\ (combo.efficiency.n > 0) <=> (cost < 0)

\* C6: on chains of numeric legs, every returned combination carries the documented
\* economics of some (call, put) pair of the chain: net_cost = long ask - short bid,
\* efficiency = -net_cost / (call strike - put strike) with a positive strike
\* difference, net_delta and net_vega = long minus short, breakeven = call strike +
\* net_cost (bullish) or put strike - net_cost (bearish); efficiency > 0 iff net_cost < 0.
C6_EconomicsMatchFormulas ==
    (pc = "generated" /\ NumericChains) =>
        \A combo \in Returned :
            \E c \in Range(calls), p \in Range(puts) : EconomicsOf(combo, c, p)

\* C6 witness: a returned combination with a net credit, hence positive efficiency
C6_Witness ==
    /\ pc = "generated" /\ NumericChains
    /\ \E combo \in Returned : combo.net_cost.n < 0 /\ combo.efficiency.n > 0

\* what the generator of the running engine and strategy returns for given chains
AnalyzeOf(cs, ps) ==
    IF engine = "full" /\ strategy = "bullish"
        THEN FullAnalyzeBullish(cs, ps, underlying_price, ExpirationDate, days_to_exp)
    ELSE IF engine = "full"
        THEN FullAnalyzeBearish(cs, ps, underlying_price, ExpirationDate, days_to_exp)
    ELSE IF strategy = "bullish"
        THEN LightAnalyzeBullish(cs, ps, underlying_price, ExpirationDate, days_to_exp)
    ELSE LightAnalyzeBearish(cs, ps, underlying_price, ExpirationDate, days_to_exp)

\* C7: a leg that lacks a field (a null or absent cell) only removes its own
\* pairings: the generator does not fail, and it returns what it returns for the
\* chains without that leg.
C7_NullLegSkippedAlone ==
    pc = "generated" =>
        /\ fault = "none"
        /\ combinations =
              AnalyzeOf(SelectSeq(calls, NumericLeg), SelectSeq(puts, NumericLeg)).combinations


-----------------------------------------------------------------------------
(* Ranking Engine and the per-expiration cap                               *)

\* delta_score * 0.40 + efficiency_score * 0.40 + vega_score * 0.20, in tenths
DeltaWeight == 4
EfficiencyWeight == 4
VegaWeight == 2
\* the neutral score 0.5 = 1 / NeutralDen
NeutralDen == 2
\* groupby('expiration').head(3)
PerExpiration == 3
\* light engine: combo['efficiency'] * 0.6 + (combo['net_delta'] / 10) * 0.4, in tenths
LightEfficiencyWeight == 6
LightDeltaWeight == 4
LightDeltaDivisor == 10

FMul(x, y) ==
    IF IsNaN(x) \/ IsNaN(y) THEN NaN
    ELSE IF IsNum(x) /\ IsNum(y) THEN Rat(x.n * y.n, x.d * y.d)
    ELSE IF (IsNum(x) /\ x.n = 0) \/ (IsNum(y) /\ y.n = 0) THEN NaN
    ELSE IF (FLt(x, Num(0))) = (FLt(y, Num(0))) THEN PosInf ELSE NegInf

RECURSIVE SeqMin(_)
SeqMin(s) ==
    IF Len(s) = 1 THEN s[1]
    ELSE LET m == SeqMin(Tail(s)) IN IF FLt(m, s[1]) THEN m ELSE s[1]

RECURSIVE SeqMax(_)
SeqMax(s) ==
    IF Len(s) = 1 THEN s[1]
    ELSE LET m == SeqMax(Tail(s)) IN IF FGt(m, s[1]) THEN m ELSE s[1]

\* the float mean of n copies of x differs from x: in IEEE double arithmetic
\* fl(fl(x + ... + x) / n) # x.  Tabulated for the values the pools hold and
\* n up to 6 (e.g. (0.2 + 0.2 + 0.2) / 3 = 0.20000000000000004)
MeanIsInexact(x, n) ==
    /\ n \in {3, 6}
    /\ FAbs(x) \in {Rat(1, 10), Rat(1, 5), Rat(2, 5)}

\* series.std() == 0.  pandas computes the sample variance in two passes: the
\* mean sum/n, then the squared deviations from it.  It is 0 only for a series of
\* at least two equal numbers whose float mean is that number; the std of fewer
\* than two values is nan, and nan == 0 is False
StdIsZero(series) ==
    /\ Len(series) >= 2
    /\ \A i \in 1..Len(series) : FEq(series[i], series[1])
    /\ ~MeanIsInexact(series[1], Len(series))

\* safe_normalize(series, reverse) of rank_combinations / rank_bearish_combinations
safe_normalize(series, reverse) ==
    IF StdIsZero(series) \/ Len(series) < 2
    THEN [i \in 1..Len(series) |-> Rat(1, NeutralDen)]
    ELSE LET lo == SeqMin(series)
             hi == SeqMax(series)
         IN  [i \in 1..Len(series) |->
                LET norm == NpDiv(FSub(series[i], lo), FSub(hi, lo))
                IN  IF reverse THEN FSub(Num(1), norm) ELSE norm]

Column(rows, field) == [i \in 1..Len(rows) |-> rows[i][field]]

\* a total score that weights vega 0.40 and efficiency 0.20
total_score_vega_heavy(delta_score, efficiency_score, vega_score) ==
    FAdd(FAdd(FMul(delta_score, Rat(DeltaWeight, 10)),
              FMul(efficiency_score, Rat(VegaWeight, 10))),
         FMul(vega_score, Rat(EfficiencyWeight, 10)))

total_score(delta_score, efficiency_score, vega_score) ==
    FAdd(FAdd(FMul(delta_score, Rat(DeltaWeight, 10)),
              FMul(efficiency_score, Rat(EfficiencyWeight, 10))),
         FMul(vega_score, Rat(VegaWeight, 10)))

\* a row of the ranked frame: the combination and its four score columns
Scored(combo, delta_score, vega_score, efficiency_score) ==
    [f \in DOMAIN combo \cup {"delta_score", "vega_score", "efficiency_score", "total_score"} |->
        IF f = "delta_score" THEN delta_score
        ELSE IF f = "vega_score" THEN vega_score
        ELSE IF f = "efficiency_score" THEN efficiency_score
        ELSE IF f = "total_score" THEN total_score(delta_score, efficiency_score, vega_score)
        ELSE combo[f]]

\* where index i enters a list of indices ordered by descending key, after its equals
RECURSIVE InsertDescending(_, _, _)
InsertDescending(order, i, keys) ==
    IF Len(order) = 0 THEN << i >>
    ELSE IF FLt(keys[order[1]], keys[i]) THEN << i >> \o order
    ELSE << order[1] >> \o InsertDescending(Tail(order), i, keys)

\* the indices of keys in descending key order, equal keys in input order
RECURSIVE StableOrder(_, _)
StableOrder(keys, n) ==
    IF n = 0 THEN << >>
    ELSE InsertDescending(StableOrder(keys, n - 1), n, keys)

Without(s, i) == SubSeq(s, 1, i - 1) \o SubSeq(s, i + 1, Len(s))

\* every reordering of a descending order that only permutes indices of equal key
RECURSIVE TieOrders(_, _)
TieOrders(order, keys) ==
    IF Len(order) = 0 THEN {<< >>}
    ELSE UNION {{<< order[i] >> \o rest : rest \in TieOrders(Without(order, i), keys)} :
                   i \in {j \in 1..Len(order) : FEq(keys[order[j]], keys[order[1]])}}

Reorder(rows, order) == [k \in 1..Len(order) |-> rows[order[k]]]

\* df.sort_values('total_score', ascending=False): pandas sorts with its default
\* kind 'quicksort', which is not stable, so rows of equal total_score may come
\* out in any order; rows whose total_score is nan come last, in input order.
\* The result is one of these frames
sort_values(rows) ==
    LET keys == Column(rows, "total_score")
        numbers == SelectSeq([i \in 1..Len(rows) |-> i], LAMBDA i : ~IsNaN(keys[i]))
        nans == SelectSeq([i \in 1..Len(rows) |-> i], LAMBDA i : IsNaN(keys[i]))
        numberKeys == [k \in 1..Len(numbers) |-> keys[numbers[k]]]
    IN  {Reorder(rows, [k \in 1..Len(order) |-> numbers[order[k]]] \o nans) :
            order \in TieOrders(StableOrder(numberKeys, Len(numberKeys)), numberKeys)}

\* net_delta, held in ten-thousandths, as the number the code holds
DeltaValue(x) == IF IsNum(x) THEN Rat(x.n, x.d * GreekUnit) ELSE x

\* df['net_delta'] and df['net_vega'] as the numbers the code holds
GreekColumn(combos, field) == [i \in 1..Len(combos) |-> DeltaValue(combos[i][field])]

\* a ranking that normalises each factor within the expiration of the combination
rank_combinations_per_expiration(combos) ==
    LET Group(i) == SelectSeq(combos, LAMBDA c : c.expiration = combos[i].expiration)
        Pos(i) == Cardinality({j \in 1..i : combos[j].expiration = combos[i].expiration})
    IN  [i \in 1..Len(combos) |->
            Scored(combos[i],
                   safe_normalize(GreekColumn(Group(i), "net_delta"), FALSE)[Pos(i)],
                   safe_normalize(GreekColumn(Group(i), "net_vega"), FALSE)[Pos(i)],
                   safe_normalize(Column(Group(i), "efficiency"), FALSE)[Pos(i)])]

\* the scored frame of rank_combinations, before sorting
rank_combinations(combos) ==
    LET delta_score == safe_normalize(GreekColumn(combos, "net_delta"), FALSE)
        vega_score == safe_normalize(GreekColumn(combos, "net_vega"), FALSE)
        efficiency_score == safe_normalize(Column(combos, "efficiency"), FALSE)
    IN  [i \in 1..Len(combos) |->
            Scored(combos[i], delta_score[i], vega_score[i], efficiency_score[i])]

\* the scored frame of rank_bearish_combinations, before sorting
rank_bearish_combinations(combos) ==
    LET delta_score == safe_normalize(GreekColumn(combos, "net_delta"), TRUE)
        vega_score == safe_normalize([i \in 1..Len(combos) |->
                                         FAbs(DeltaValue(combos[i].net_vega))], TRUE)
        efficiency_score == safe_normalize(Column(combos, "efficiency"), FALSE)
    IN  [i \in 1..Len(combos) |->
            Scored(combos[i], delta_score[i], vega_score[i], efficiency_score[i])]

\* light engine, rank_combinations.score
score(combo) ==
    FAdd(FMul(combo.efficiency, Rat(LightEfficiencyWeight, 10)),
         FMul(NpDiv(DeltaValue(combo.net_delta), Num(LightDeltaDivisor)),
              Rat(LightDeltaWeight, 10)))

\* light engine, rank_combinations: sorted(combinations, key=score, reverse=True),
\* a stable sort
LightRankCombinations(combos) ==
    LET keys == [i \in 1..Len(combos) |-> score(combos[i])]
    IN  Reorder(combos, StableOrder(keys, Len(keys)))

\* the rows that are among the first PerExpiration of their expiration
HeadPerExpiration(rows) ==
    LET Earlier(i) == Cardinality({j \in 1..(i - 1) : rows[j].expiration = rows[i].expiration})
        keep == {i \in 1..Len(rows) : Earlier(i) < PerExpiration}
        RECURSIVE Pick(_)
        Pick(i) == IF i > Len(rows) THEN << >>
                   ELSE (IF i \in keep THEN << rows[i] >> ELSE << >>) \o Pick(i + 1)
    IN  Pick(1)

\* run_bullish_analysis / run_bearish_analysis of the full engine, from ranking on:
\* the pairs << ranked_results, final_results >> it can produce
FullRun(scored) ==
    UNION {{<< ranked, final >> : final \in sort_values(HeadPerExpiration(ranked))} :
              ranked \in sort_values(scored)}

\* run_bullish_analysis / run_bearish_analysis of the light engine, from ranking on:
\* the ranked list goes to format_analysis_result as it is
LightRun(combos) ==
    LET ranked == LightRankCombinations(combos) IN {<< ranked, ranked >>}

MaxPool == 4

\* the expirations of a run, in the order they are analysed
Expirations == << "E1", "E2" >>

\* net_delta, efficiency and net_vega of the candidates of a pool
Factors(strat) ==
    IF strat = "bullish"
    THEN { << Num(2000), Rat(-1, 50), Num(50) >>,
           << Num(2500), Rat(-1, 50), Num(50) >>,
           << Num(4000), Rat(-1, 50), Num(50) >>,
           << Num(2000), Rat(3, 100), Num(50) >>,
           << Num(2000), Rat(1, 100), Num(100) >>,
           << Num(4000), Rat(1, 100), Num(100) >> }
    ELSE { << Num(-2000), Rat(-1, 50), Num(-100) >>,
           << Num(-2500), Rat(-1, 50), Num(-100) >>,
           << Num(-4000), Rat(-1, 50), Num(-100) >>,
           << Num(-2000), Rat(3, 100), Num(-100) >>,
           << Num(-2000), Rat(1, 100), Num(50) >>,
           << Num(-4000), Rat(1, 100), Num(50) >> }

\* a combination as the Ranking Engine sees it: the columns it reads, and `pair`,
\* standing for the strikes that tell the combinations of a pool apart
Candidate(factors, expiration, pair) ==
    [expiration |-> expiration, pair |-> pair,
     net_delta |-> factors[1], efficiency |-> factors[2], net_vega |-> factors[3]]

\* all_combinations: the combinations of the first expiration, then of the second;
\* no two candidates of a pool agree in all three factors
Pools(strat) ==
    UNION {{[i \in 1..n |-> Candidate(f[i], IF i <= k THEN Expirations[1] ELSE Expirations[2], i)] :
               f \in {g \in [1..n -> Factors(strat)] : \A i, j \in 1..n : g[i] = g[j] => i = j},
               k \in 0..n} : n \in 0..MaxPool}

RankInit ==
    /\ engine \in Engines
    /\ strategy \in Strategies
    /\ pc = "rank"
    /\ input_df = Frame(Fields, << >>)
    /\ filtered = << >>
    /\ fault = "none"
    /\ calls = << >>
    /\ puts = << >>
    /\ underlying_price = Num(0)
    /\ days_to_exp = 0
    /\ combinations = << >>
    /\ all_combinations \in Pools(strategy)
    /\ ranked_results = << >>
    /\ final_results = << >>
    /\ reranked_results = << >>
    /\ NoRun

Rank(outcomes) ==
    /\ pc = "rank"
    /\ \E o \in outcomes :
        /\ ranked_results' = o[1]
        /\ final_results' = o[2]
    /\ pc' = "reported"
    /\ UNCHANGED << engine, strategy, fault, sanVars, genVars, all_combinations,
                    reranked_results, runVars >>

RankFullBullish ==
    /\ engine = "full" /\ strategy = "bullish"
    /\ Rank(FullRun(rank_combinations(all_combinations)))

RankFullBearish ==
    /\ engine = "full" /\ strategy = "bearish"
    /\ Rank(FullRun(rank_bearish_combinations(all_combinations)))

RankLightBullish ==
    /\ engine = "light" /\ strategy = "bullish"
    /\ Rank(LightRun(all_combinations))

RankLightBearish ==
    /\ engine = "light" /\ strategy = "bearish"
    /\ Rank(LightRun(all_combinations))

\* the combinations of a ranked collection, in ranked order: the rows without
\* the score columns, which the ranking functions overwrite
Combinations(rows) ==
    [i \in 1..Len(rows) |->
        [f \in DOMAIN rows[i] \
                {"delta_score", "vega_score", "efficiency_score", "total_score"} |-> rows[i][f]]]

\* the Ranking Engine applied once more, to the collection it returned
Rerank(outcomes) ==
    /\ pc = "reported"
    /\ reranked_results' \in outcomes
    /\ pc' = "reranked"
    /\ UNCHANGED << engine, strategy, fault, sanVars, genVars, all_combinations,
                    ranked_results, final_results, runVars >>

RerankFullBullish ==
    /\ engine = "full" /\ strategy = "bullish"
    /\ Rerank(sort_values(rank_combinations(Combinations(ranked_results))))

RerankFullBearish ==
    /\ engine = "full" /\ strategy = "bearish"
    /\ Rerank(sort_values(rank_bearish_combinations(Combinations(ranked_results))))

RerankLight ==
    /\ engine = "light"
    /\ Rerank({LightRankCombinations(ranked_results)})

RankNext ==
    \/ RankFullBullish
    \/ RankFullBearish
    \/ RankLightBullish
    \/ RankLightBearish
    \/ RerankFullBullish
    \/ RerankFullBearish
    \/ RerankLight

SpecRank == RankInit /\ [][RankNext]_vars

-----------------------------------------------------------------------------
(* Ranking Engine: claims                                                  *)

Reported == pc = "reported"

SharingExpiration(rows, e) == {i \in 1..Len(rows) : rows[i].expiration = e}

\* C8: in every engine variant the result set handed to the Report Assembler
\* holds at most 3 combinations of any one expiration, whatever the pool
C8_AtMostThreePerExpiration ==
    Reported =>
        \A e \in Range(Expirations) :
            Cardinality(SharingExpiration(final_results, e)) <= PerExpiration

\* C9: in every engine variant, of two bearish combinations of one pool with
\* equal efficiency and equal net_vega, the one with the more negative
\* net_delta is never ranked below the other
C9_BearishPrefersNegativeDelta ==
    (Reported /\ strategy = "bearish") =>
        \A i, j \in 1..Len(ranked_results) :
            (/\ i < j
             /\ FEq(ranked_results[i].efficiency, ranked_results[j].efficiency)
             /\ FEq(ranked_results[i].net_vega, ranked_results[j].net_vega))
            => ~FLt(ranked_results[j].net_delta, ranked_results[i].net_delta)

\* s = (value - min) / (max - min) over the series, stated without division
IsMinMaxOf(s, value, series) ==
    LET lo == SeqMin(series)
        hi == SeqMax(series)
    IN  FLt(lo, hi) => FEq(FMul(s, FSub(hi, lo)), FSub(value, lo))

InUnitInterval(x) == IsNum(x) /\ 0 <= x.n /\ x.n <= x.d

WithoutScores(row) ==
    [f \in DOMAIN row \ {"delta_score", "vega_score", "efficiency_score", "total_score"} |-> row[f]]

\* ranked holds the combinations of pool, each once
SameCombinations(ranked, pool) ==
    /\ Len(ranked) = Len(pool)
    /\ \A i \in 1..Len(pool) :
        Cardinality({k \in 1..Len(ranked) : WithoutScores(ranked[k]) = pool[i]}) = 1

\* total = 0.40 * delta + 0.40 * efficiency + 0.20 * vega, stated on integers
IsWeightedTotal(total, delta, efficiency, vega) ==
    total.n * 10 * delta.d * efficiency.d * vega.d
        = total.d * ( 4 * delta.n * efficiency.d * vega.d
                    + 4 * efficiency.n * delta.d * vega.d
                    + 2 * vega.n * delta.d * efficiency.d )

\* C10: rank_combinations of the full engine returns the candidates, each with
\* the min-max normalised score of net_delta, efficiency and net_vega over the
\* pool, every score in [0, 1], total_score = 0.40 * delta_score +
\* 0.40 * efficiency_score + 0.20 * vega_score, ordered by total_score descending
C10_NormalisedWeightedDescending ==
    (Reported /\ engine = "full" /\ strategy = "bullish") =>
        /\ SameCombinations(ranked_results, all_combinations)
        /\ \A i \in 1..Len(ranked_results) :
            LET row == ranked_results[i] IN
            /\ IsMinMaxOf(row.delta_score, row.net_delta, Column(all_combinations, "net_delta"))
            /\ IsMinMaxOf(row.efficiency_score, row.efficiency, Column(all_combinations, "efficiency"))
            /\ IsMinMaxOf(row.vega_score, row.net_vega, Column(all_combinations, "net_vega"))
            /\ InUnitInterval(row.delta_score)
            /\ InUnitInterval(row.efficiency_score)
            /\ InUnitInterval(row.vega_score)
            /\ InUnitInterval(row.total_score)
            /\ IsWeightedTotal(row.total_score, row.delta_score, row.efficiency_score, row.vega_score)
        /\ \A i \in 1..(Len(ranked_results) - 1) :
            FGe(ranked_results[i].total_score, ranked_results[i + 1].total_score)

\* C8, full engine only: at most 3 combinations of one expiration are reported
C8_FullEngineCapped ==
    (Reported /\ engine = "full") =>
        \A e \in Range(Expirations) :
            Cardinality(SharingExpiration(final_results, e)) <= PerExpiration

\* C10 witness: the full engine has ranked a bullish pool of at least three
\* candidates in which every factor varies, some scores lie strictly inside
\* (0, 1) and the total scores differ
C10_Witness ==
    /\ Reported /\ engine = "full" /\ strategy = "bullish"
    /\ Len(ranked_results) >= 3
    /\ \A f \in {"net_delta", "efficiency", "net_vega"} :
        FLt(SeqMin(Column(all_combinations, f)), SeqMax(Column(all_combinations, f)))
    /\ \E i \in 1..Len(ranked_results) :
        /\ FLt(Num(0), ranked_results[i].efficiency_score)
        /\ FLt(ranked_results[i].efficiency_score, Num(1))
    /\ \E i \in 1..Len(ranked_results) :
        /\ FLt(Num(0), ranked_results[i].delta_score)
        /\ FLt(ranked_results[i].delta_score, Num(1))
    /\ \E i \in 1..(Len(ranked_results) - 1) :
        FGt(ranked_results[i].total_score, ranked_results[i + 1].total_score)

-----------------------------------------------------------------------------
(* Ranking Engine: degenerate factors, pooled scores, idempotence, ties    *)

\* the values of a scoring factor over a pool, as the ranking function reads them
FactorValues(pool, factor) ==
    [i \in 1..Len(pool) |->
        IF factor = "net_vega" /\ strategy = "bearish"
        THEN FAbs(pool[i].net_vega) ELSE pool[i][factor]]

ScoreColumn(factor) ==
    IF factor = "net_delta" THEN "delta_score"
    ELSE IF factor = "net_vega" THEN "vega_score" ELSE "efficiency_score"

Degenerate(values) ==
    Len(values) >= 1 /\ \A i \in 1..Len(values) : FEq(values[i], values[1])

\* C11: in rank_combinations and rank_bearish_combinations, a factor whose
\* candidate set has one member or whose values are all equal gives every
\* member the score 0.5 (no division by zero)
C11_DegenerateFactorIsNeutral ==
    (Reported /\ engine = "full") =>
        \A factor \in {"net_delta", "efficiency", "net_vega"} :
            Degenerate(FactorValues(all_combinations, factor)) =>
                \A i \in 1..Len(ranked_results) :
                    ranked_results[i][ScoreColumn(factor)] = Rat(1, 2)

\* in bearish ranking net_delta and |net_vega| are scored in reverse
Reversed(factor) == strategy = "bearish" /\ factor \in {"net_delta", "net_vega"}

\* the score of a row for a factor is the min-max score over the whole pool
IsPooledScore(row, factor) ==
    LET values == FactorValues(all_combinations, factor)
        value == FactorValues(<< row >>, factor)[1]
        s == row[ScoreColumn(factor)]
    IN  IsMinMaxOf(IF Reversed(factor) THEN FSub(Num(1), s) ELSE s, value, values)

\* C12: every combination of the final report carries the scores computed over
\* the pooled candidates of all expirations; the per-expiration grouping and the
\* re-sort neither recompute nor change a score
C12_ScoresPooledBeforeGrouping ==
    (Reported /\ engine = "full") =>
        \A i \in 1..Len(final_results) :
            /\ \E k \in 1..Len(ranked_results) : final_results[i] = ranked_results[k]
            /\ \A factor \in {"net_delta", "efficiency", "net_vega"} :
                   IsPooledScore(final_results[i], factor)
            /\ IsNum(final_results[i].total_score) =>
                   IsWeightedTotal(final_results[i].total_score, final_results[i].delta_score,
                                   final_results[i].efficiency_score, final_results[i].vega_score)

\* C12 witness: a final report with combinations of both expirations in which the
\* pool's smallest and largest net_delta belong to different expirations and a
\* combination of the second expiration has a delta score strictly inside (0, 1)
C12_Witness ==
    /\ Reported /\ engine = "full"
    /\ \E i, j, k \in 1..Len(final_results) :
        /\ final_results[i].expiration = Expirations[1]
        /\ final_results[j].expiration = Expirations[2]
        /\ final_results[k].expiration = Expirations[2]
        /\ final_results[i].net_delta = SeqMin(Column(all_combinations, "net_delta"))
        /\ final_results[j].net_delta = SeqMax(Column(all_combinations, "net_delta"))
        /\ FLt(Num(0), final_results[k].delta_score)
        /\ FLt(final_results[k].delta_score, Num(1))
        /\ \A m \in 1..Len(final_results) :
             final_results[m].expiration = Expirations[2]
                => FLt(final_results[i].net_delta, final_results[m].net_delta)

Reranked == pc = "reranked"

\* C13: ranking is idempotent: the Ranking Engine applied to an already ranked
\* collection, in its ranked order, returns the same order and the same scores
C13_RankingIdempotent ==
    Reranked => reranked_results = ranked_results

\* C13, light engine only: re-ranking returns the ranked list unchanged
C13_LightIdempotent ==
    (Reranked /\ engine = "light") => reranked_results = ranked_results

\* C13, scores only: re-ranking gives every combination the scores it had
C13_SameScores ==
    Reranked =>
        \A i \in 1..Len(reranked_results) :
            \E k \in 1..Len(ranked_results) : reranked_results[i] = ranked_results[k]


\* the key a ranked row was sorted by
SortKey(row) == IF engine = "full" THEN row.total_score ELSE score(row)

\* rows of equal key are in the order of the input enumeration (`pair`)
TiesInInputOrder(rows) ==
    \A i, j \in 1..Len(rows) :
        (i < j /\ FEq(SortKey(rows[i]), SortKey(rows[j]))) => rows[i].pair < rows[j].pair

\* C14: the ranking sort is stable: combinations of equal total_score keep the
\* relative order of the input enumeration, after the first sort and after the
\* per-expiration grouping and re-sort
C14_SortIsStable ==
    Reported => (TiesInInputOrder(ranked_results) /\ TiesInInputOrder(final_results))

\* C14, light engine only: the ranked list keeps tied combinations in input order
C14_LightSortIsStable ==
    (Reported /\ engine = "light") => TiesInInputOrder(ranked_results)

\* ======================================================================
\* One run of run_bullish_analysis / run_bearish_analysis: the fetches it
\* makes, the expirations it analyses and the value it returns
\* ======================================================================

\* the window a run is called with: run_*_analysis(ticker, min_dte, max_dte)
min_dte == 0
max_dte == 3

\* expirations are named by their date, counted in calendar days from today
MaxDay == 4

\* valid_expirations[:3]
MaxExpirations == 3

\* results.head(5) of format_text_report, combinations[:5] of format_analysis_result
TopRows == 5

\* the combinations one analysed expiration can yield
MaxFound == 1

\* datetime.now() is read at midnight sharp or later in the day
Clocks == {"midnight", "daytime"}

\* (datetime.strptime(exp, "%Y-%m-%d") - today).days: the expiration is a date at
\* 00:00 and today carries the time of day, so the difference is floored to the
\* whole day below unless the clock reads midnight
dte(exp, today) == IF today = "midnight" THEN exp ELSE exp - 1

valid_expirations(exps, today) ==
    SelectSeq(exps, LAMBDA exp : min_dte <= dte(exp, today) /\ dte(exp, today) <= max_dte)

\* a selection without the [:3]: every expiration that passes the window
AllValidExpirations(exps, today, cap) == valid_expirations(exps, today)

\* valid_expirations(...)[:3], with the cap as a parameter
FirstExpirations(exps, today, cap) ==
    LET valid == valid_expirations(exps, today)
    IN  SubSeq(valid, 1, IF Len(valid) < cap THEN Len(valid) ELSE cap)

RECURSIVE Ascending(_)
Ascending(days) ==
    IF days = {} THEN << >>
    ELSE LET first == CHOOSE d \in days : \A other \in days : d <= other
         IN  << first >> \o Ascending(days \ {first})

RECURSIVE Descending(_)
Descending(days) ==
    IF days = {} THEN << >>
    ELSE LET first == CHOOSE d \in days : \A other \in days : d >= other
         IN  << first >> \o Descending(days \ {first})

\* stock.options: distinct dates, nearest first or farthest first
ExpiryLists ==
    {Ascending(days) : days \in SUBSET (0..MaxDay)}
        \cup {Descending(days) : days \in SUBSET (0..MaxDay)}

\* the factors of the combinations found in a run, in the order they are found
FoundFactors(strat) ==
    IF strat = "bullish"
    THEN << << Num(2000), Rat(-1, 50), Num(50) >>,
            << Num(2500), Rat(-1, 50), Num(50) >>,
            << Num(4000), Rat(-1, 50), Num(50) >>,
            << Num(2000), Rat(3, 100), Num(50) >>,
            << Num(2000), Rat(1, 100), Num(100) >>,
            << Num(4000), Rat(1, 100), Num(100) >> >>
    ELSE << << Num(-2000), Rat(-1, 50), Num(-100) >>,
            << Num(-2500), Rat(-1, 50), Num(-100) >>,
            << Num(-4000), Rat(-1, 50), Num(-100) >>,
            << Num(-2000), Rat(3, 100), Num(-100) >>,
            << Num(-2000), Rat(1, 100), Num(50) >>,
            << Num(-4000), Rat(1, 100), Num(50) >> >>

\* net_cost of the combinations found in a run, in cents: nothing, a credit, a debit
NetCosts == << Num(0), Num(-50), Num(125) >>

\* the `count` valid combinations analyze_*_risk_reversal returns for `expiration`
\* when `before` combinations are pooled already; days_to_exp is the difference of
\* the two dates, (exp_date - today).days, which is the day the expiration is named by
Found(strat, expiration, before, count) ==
    [i \in 1..count |->
        LET c == Candidate(FoundFactors(strat)[((before + i - 1) % Len(FoundFactors(strat))) + 1],
                           expiration, before + i)
        IN  [expiration |-> c.expiration, pair |-> c.pair, net_delta |-> c.net_delta,
             efficiency |-> c.efficiency, net_vega |-> c.net_vega,
             net_cost |-> NetCosts[((before + i - 1) % Len(NetCosts)) + 1],
             days_to_exp |-> expiration]]

\* what the fetch and the analysis of one expiration can come to
ChainOutcomes ==
    {<< "fetch_raises" >>, << "empty" >>, << "raises" >>} \cup {<< "found", k >> : k \in 0..MaxFound}

Take(rows, n) == SubSeq(rows, 1, IF Len(rows) < n THEN Len(rows) ELSE n)

\* ---- the values a run returns ----

\* a plain message of the text-report engine
Message(text) == [text |-> text, best |-> << >>, analysis_summary |-> << >>, table |-> << >>]

\* f"{x:.3f}" and the like: x to the nearest multiple of 1/den, halves to even,
\* nan as nan
Fixed(x, den) ==
    IF ~IsNum(x) THEN x
    ELSE LET a == IAbs(x.n) * den
             q == a \div x.d
             r == a % x.d
             m == IF 2 * r > x.d \/ (2 * r = x.d /\ q % 2 = 1) THEN q + 1 ELSE q
         IN  Rat(IF x.n < 0 THEN -m ELSE m, den)

\* f"${abs(net_cost):.2f} {'CREDIT' if net_cost < 0 else 'DEBIT'}", the amount in cents
cost_display(net_cost) ==
    [amount |-> Fixed(FAbs(net_cost), 1),
     label |-> IF FLt(net_cost, Num(0)) THEN "CREDIT" ELSE "DEBIT"]

\* a table label that takes a net cost of nothing for a credit
cost_txt_credit_at_zero(net_cost) ==
    [amount |-> Fixed(FAbs(net_cost), 1),
     label |-> IF FLe(net_cost, Num(0)) THEN "CR" ELSE "DB"]

\* f"${abs(net_cost):.2f} {'CR' if net_cost < 0 else 'DB'}"
cost_txt(net_cost) ==
    [amount |-> Fixed(FAbs(net_cost), 1),
     label |-> IF FLt(net_cost, Num(0)) THEN "CR" ELSE "DB"]

\* the lines under TOP RECOMMENDED TRADE
best_lines(best) ==
    [expiration |-> best.expiration, days_to_exp |-> best.days_to_exp,
     strikes |-> best.pair, cost_display |-> cost_display(best.net_cost),
     net_vega |-> Fixed(DeltaValue(best.net_vega), 1000),
     efficiency |-> Fixed(best.efficiency, 1000)]

\* a row of the table of format_text_report; i is the index label of the row
table_line(i, row) ==
    << i + 1, row.expiration, row.pair, cost_txt(row.net_cost),
       Fixed(DeltaValue(row.net_vega), 1000), Fixed(row.efficiency, 1000),
       Fixed(row.total_score, 1000) >>

\* a row of top_5 of format_analysis_result; i is the position from enumerate
top_5_row(i, combo) ==
    << i + 1, combo.expiration, combo.pair, cost_txt(combo.net_cost),
       Fixed(DeltaValue(combo.net_vega), 1000), Fixed(combo.efficiency, 1000),
       Fixed(combo.efficiency, 1000) >>

format_text_report(results, summary, strategy_type) ==
    IF results = << >>
    THEN Message(<< "No", "valid", strategy_type, "strategies", "found", "for", "{ticker}." >>)
    ELSE [text |-> << "{ticker}", strategy_type, "Risk", "Reversal", "Report" >>,
          best |-> << best_lines(results[1]) >>,
          analysis_summary |-> summary,
          table |-> [i \in 1..Len(Take(results, TopRows)) |-> table_line(i - 1, results[i])]]

format_analysis_result(combos, strategy_type) ==
    IF combos = << >>
    THEN [summary |-> << "No valid", strategy_type, "strategies found for {ticker}." >>,
          risk |-> << >>, pricing_comparison |-> << >>, top_5 |-> << >>]
    ELSE [summary |-> << "TOP RECOMMENDED TRADE", best_lines(combos[1]) >>,
          risk |-> << "STRATEGY OVERVIEW & RISK", strategy_type >>,
          pricing_comparison |-> << >>,
          top_5 |-> [i \in 1..Len(Take(combos, TopRows)) |-> top_5_row(i - 1, combos[i])]]

\* return at `if history_data.empty`
NoPriceResult(eng, strat) ==
    IF eng = "full"
    THEN Message(<< "Unable to fetch price data for {ticker}. Please check the ticker symbol and try again." >>)
    ELSE format_analysis_result(<< >>, strat)

\* return at `if not expirations`
NoOptionsResult(eng, strat) ==
    IF eng = "full"
    THEN Message(<< "No options data available for {ticker}. The ticker may not have an options market." >>)
    ELSE format_analysis_result(<< >>, strat)

\* return of the inner `except Exception` around stock.options
OptionsFailedResult(eng, strat) ==
    IF eng = "full"
    THEN Message(<< "Could not fetch option expiration dates for {ticker}." >>)
    ELSE format_analysis_result(<< >>, strat)

\* return at `if not valid_expirations`
NoExpirationsInRangeResult(eng, strat) ==
    IF eng = "full"
    THEN Message(<< "No expirations found in the specified date range for {ticker}." >>)
    ELSE format_analysis_result(<< >>, strat)

\* return at `if not all_combinations`
NoValidResult(eng, strat) ==
    IF eng = "full"
    THEN Message(<< "No", "valid", strat, "strategies", "found", "for", "{ticker}." >>)
    ELSE format_analysis_result(<< >>, strat)

\* a run with no handler around its body: the exception leaves the function
NoExceptClause(eng, e) == [pc |-> "raised", at |-> "propagated", value |-> << >>]

\* the outer `except Exception as e` of the run: the exception becomes a value
ExceptException(eng, e) ==
    [pc |-> "returned", at |-> "error",
     value |-> IF eng = "full"
               THEN Message(<< "An unexpected error occurred while analyzing {ticker}.", e >>)
               ELSE [summary |-> << "Analysis Error:", e >>,
                     risk |-> << >>, pricing_comparison |-> << >>, top_5 |-> << >>]]

\* ---- the text of a report and the boundary that parses it ----

\* a line of text: its words, and for a table row its fields between the bars
Line(words, cells) == [words |-> words, cells |-> cells]

\* '=' * 80 and '-' * 80
Rule == Line(<< "========" >>, << >>)
Dashes == Line(<< "--------" >>, << >>)

\* f"{min(len(results), 5)}"
Digits == << "1", "2", "3", "4", "5" >>

\* result_text.split('\n') of what the text-report engine returns, each line
\* stripped and the blank ones left out
split_lines(result_text) ==
    IF result_text.table = << >> THEN << Line(result_text.text, << >>) >>
    ELSE << Rule, Line(result_text.text, << >>), Rule,
            Line(<< "TOP", "RECOMMENDED", "TRADE" >>, << >>),
            Line(<< "Expiration:", "days" >>, << >>),
            Line(<< "Strikes:", "Long", "Short" >>, << >>),
            Line(<< "Net", "Cost:", result_text.best[1].cost_display.label >>, << >>),
            Line(<< "Breakeven:" >>, << >>),
            Line(<< "Net", "Vega:" >>, << >>),
            Line(<< "Efficiency:" >>, << >>),
            Line(<< "STRATEGY", "OVERVIEW", "&", "RISK" >>, << >>),
            Line(<< "A", result_text.text[2], "Risk", "Reversal", "creates", "a", "synthetic",
                    "stock", "position", "with", "low", "or", "zero", "cost." >>, << >>),
            Line(<< "The", "primary", "risk", "is", "the", "short", "leg.", "If", "the",
                    "stock", "price", "passes", "the", "strike,", "you", "may", "be",
                    "assigned" >>, << >>),
            Line(<< "100", "shares", "per", "contract", "at", "that", "price.",
                    "Maximum", "loss" >>, << >>),
            Line(<< "ANALYSIS", "SUMMARY" >>, << >>) >>
         \o [i \in 1..Len(result_text.analysis_summary) |->
                Line(<< "Found", "valid", "trades" >>, << >>)]
         \o << Line(<< "TOP", Digits[Len(result_text.table)], "COMBINATIONS",
                       "(Max", "3", "Per", "Expiration)" >>, << >>),
                Line(<< "RANK", "|", "EXPIRATION", "|", "STRIKES", "|", "NET", "COST", "|",
                        "NET", "VEGA", "|", "EFFICIENCY", "|", "SCORE" >>, << >>),
                Dashes >>
         \o [i \in 1..Len(result_text.table) |-> Line(<< >>, result_text.table[i])]
         \o << Line(<< "PRICING", "COMPARISON", "(for", "debugging", "Robinhood",
                       "discrepancy)" >>, << >>),
                Line(<< "Current", "Method", "(Worst-case):" >>, << >>),
                Line(<< "Mid-Price", "Method", "(Robinhood", "likely):" >>, << >>),
                Line(<< "Optimistic", "Method", "(Best-case):" >>, << >>),
                Line(<< "Bid-Ask", "Spreads:" >>, << >>),
                Rule, Line(<< "Report", "generated", "on" >>, << >>), Rule >>

\* str.upper() on a word
Upper(word) ==
    CASE word \in {"Risk", "risk"} -> "RISK"
      [] word = "Report" -> "REPORT"
      [] word = "Found" -> "FOUND"
      [] word = "valid" -> "VALID"
      [] word = "strategies" -> "STRATEGIES"
      [] word = "found" -> "FOUND"
      [] word = "No" -> "NO"
      [] OTHER -> word

upper(line) == [i \in 1..Len(line.words) |-> Upper(line.words[i])]

\* phrase in text, on whole words
Contains(text, phrase) ==
    \E i \in 1..(Len(text) - Len(phrase) + 1) : SubSeq(text, i, i + Len(phrase) - 1) = phrase

\* the dict parse_analysis_result returns at "No valid strategies found"
NoResultObject ==
    [summary |-> << Line(<< "No valid strategies found for these parameters." >>, << >>) >>,
     risk |-> << >>, pricing_comparison |-> << >>, top_5 |-> << >>]

\* one pass of `for line in lines` of parse_analysis_result
parse_line(st, line) ==
    IF st.returned THEN st
    ELSE IF Contains(upper(line), << "TOP", "RECOMMENDED", "TRADE" >>)
    THEN [st EXCEPT !.current_section = "summary"]
    ELSE IF Contains(upper(line), << "STRATEGY", "OVERVIEW" >>) \/ Contains(upper(line), << "RISK" >>)
    THEN [st EXCEPT !.current_section = "risk"]
    ELSE IF Contains(upper(line), << "PRICING", "COMPARISON" >>)
    THEN [st EXCEPT !.current_section = "pricing"]
    ELSE IF Contains(upper(line), << "TOP", "5", "COMBINATIONS" >>)
    THEN [st EXCEPT !.current_section = "top5"]
    ELSE IF Contains(line.words, << "No", "valid", "strategies", "found" >>)
    THEN [st EXCEPT !.returned = TRUE]
    ELSE IF st.current_section = "summary"
    THEN [st EXCEPT !.summary_lines = Append(@, line)]
    ELSE IF st.current_section = "risk"
    THEN [st EXCEPT !.risk_lines = Append(@, line)]
    ELSE IF st.current_section = "pricing"
    THEN [st EXCEPT !.pricing_lines = Append(@, line)]
    ELSE IF st.current_section = "top5"
    THEN (IF /\ (line.cells # << >> \/ Contains(line.words, << "|" >>))
             /\ line # Dashes
             /\ ~(Contains(upper(line), << "RANK" >>) /\ Contains(upper(line), << "EXPIRATION" >>))
             /\ Len(line.cells) >= 7
          THEN [st EXCEPT !.top_5_data = Append(@, SubSeq(line.cells, 1, 7))]
          ELSE st)
    ELSE st

\* a parser whose table section starts at any "TOP n COMBINATIONS" line
parse_line_any_top(st, line) ==
    IF Len(line.words) >= 3 /\ line.words[1] = "TOP" /\ line.words[3] = "COMBINATIONS"
    THEN [st EXCEPT !.current_section = "top5"]
    ELSE parse_line(st, line)

RECURSIVE ParseFrom(_, _, _)
ParseFrom(lines, i, st) ==
    IF i > Len(lines) THEN st ELSE ParseFrom(lines, i + 1, parse_line(st, lines[i]))

parse_analysis_result(result_text) ==
    LET st == ParseFrom(split_lines(result_text), 1,
                        [current_section |-> "None", returned |-> FALSE,
                         summary_lines |-> << >>, risk_lines |-> << >>,
                         pricing_lines |-> << >>, top_5_data |-> << >>])
    IN  IF st.returned THEN NoResultObject
        ELSE [summary |-> st.summary_lines, risk |-> st.risk_lines,
              pricing_comparison |-> st.pricing_lines, top_5 |-> st.top_5_data]

\* the `except Exception as e` of the boundary
analysis_error(e) ==
    [summary |-> << Line(<< "Analysis Error:", e >>, << >>) >>,
     risk |-> << >>, pricing_comparison |-> << >>, top_5 |-> << >>]

\* what the web boundary makes of the value the run returned: it parses what
\* the run returned as text; the light engine returns a dict, and
\* result_text.split raises AttributeError on it
analyze_endpoint(value) ==
    IF "text" \in DOMAIN value THEN parse_analysis_result(value)
    ELSE analysis_error("'dict' object has no attribute 'split'")

\* the run leaves through a return statement
Return(at, value) ==
    /\ pc' = "returned"
    /\ returned_at' = at
    /\ returned' = value
    /\ response' = analyze_endpoint(value)

Raise(e) ==
    LET handled == ExceptException(engine, e)
    IN  /\ pc' = handled.pc
        /\ returned_at' = handled.at
        /\ returned' = handled.value
        /\ response' = IF handled.pc = "returned" THEN analyze_endpoint(handled.value)
                       ELSE analysis_error(e)
        /\ fault' = e

\* ---- the steps of a run ----

RunInit ==
    /\ engine \in Engines
    /\ strategy \in Strategies
    /\ pc = "price"
    /\ input_df = Frame(Fields, << >>)
    /\ filtered = << >>
    /\ fault = "none"
    /\ calls = << >>
    /\ puts = << >>
    /\ underlying_price = Num(0)
    /\ days_to_exp = 0
    /\ combinations = << >>
    /\ all_combinations = << >>
    /\ ranked_results = << >>
    /\ final_results = << >>
    /\ reranked_results = << >>
    /\ NoRun

\* a run that never sees an empty history
history_data_never_empty(outcome) == FALSE

\* `if history_data.empty`
history_data_empty(outcome) == outcome = "empty"

\* stock.history(period='1d'), and datetime.now() when a price came
FetchPrice ==
    /\ pc = "price"
    /\ \E outcome \in {"raises", "empty", "data"} :
        /\ io_log' = Append(io_log, << "history", outcome >>)
        /\ IF outcome = "raises"
           THEN /\ Raise("history raised")
                /\ UNCHANGED << underlying_price, clock >>
           ELSE IF history_data_empty(outcome)
           THEN /\ Return("no_price", NoPriceResult(engine, strategy))
                /\ UNCHANGED << fault, underlying_price, clock >>
           ELSE /\ pc' = "options"
                /\ underlying_price' = Num(10000)
                /\ clock' \in Clocks
                /\ UNCHANGED << fault, returned_at, returned, response >>
    /\ UNCHANGED << engine, strategy, sanVars, calls, puts, days_to_exp, combinations,
                    rankVars, expirations, exp_to_analyze, analysed, chain_log,
                    analysis_summary >>

\* stock.options, the date window and the selection of the expirations to analyse
FetchExpirations ==
    /\ pc = "options"
    /\ \/ /\ io_log' = Append(io_log, << "options", "raises" >>)
          /\ Return("options_failed", OptionsFailedResult(engine, strategy))
          /\ UNCHANGED << fault, expirations, exp_to_analyze >>
       \/ /\ io_log' = Append(io_log, << "options", "malformed" >>)
          /\ Raise("strptime raised")
          /\ UNCHANGED << expirations, exp_to_analyze >>
       \/ \E exps \in ExpiryLists :
            /\ io_log' = Append(io_log, << "options", IF exps = << >> THEN "empty" ELSE "listed" >>)
            /\ expirations' = exps
            /\ IF exps = << >>
               THEN /\ Return("no_options", NoOptionsResult(engine, strategy))
                    /\ UNCHANGED exp_to_analyze
               ELSE IF valid_expirations(exps, clock) = << >>
               THEN /\ Return("no_expirations_in_range",
                              NoExpirationsInRangeResult(engine, strategy))
                    /\ UNCHANGED exp_to_analyze
               ELSE /\ exp_to_analyze' = FirstExpirations(exps, clock, MaxExpirations)
                    /\ pc' = "chains"
                    /\ UNCHANGED << returned_at, returned, response >>
            /\ UNCHANGED fault
    /\ UNCHANGED << engine, strategy, sanVars, genVars, rankVars, clock, analysed,
                    chain_log, analysis_summary >>

\* a summary that has entries only for the expirations that gave combinations
record_count_if_found(eng, summary, expiration, count) ==
    IF eng = "full" /\ count > 0 THEN Append(summary, << expiration, count >>) ELSE summary

\* analysis_summary[expiration] = 0 / = len(combinations): the text-report
\* engine keeps a count per analysed expiration, the light engine keeps none
record_count(eng, summary, expiration, count) ==
    IF eng = "full" THEN Append(summary, << expiration, count >>) ELSE summary

\* the end of the run once the loop is over: `if not all_combinations`, then
\* ranking, the per-expiration cap and the report
Finish(pool, summary) ==
    IF pool = << >>
    THEN /\ Return("no_valid", NoValidResult(engine, strategy))
         /\ UNCHANGED << ranked_results, final_results >>
    ELSE \E o \in (IF engine = "light" THEN LightRun(pool)
                   ELSE IF strategy = "bullish" THEN FullRun(rank_combinations(pool))
                   ELSE FullRun(rank_bearish_combinations(pool))) :
            /\ ranked_results' = o[1]
            /\ final_results' = o[2]
            /\ Return("report",
                      IF engine = "light" THEN format_analysis_result(o[2], strategy)
                      ELSE format_text_report(o[2], summary, strategy))

\* one pass of `for expiration in exp_to_analyze`: get_options_data and
\* analyze_*_risk_reversal for the next expiration and, after the last one, the
\* rest of the run
AnalyzeExpiration ==
    /\ pc = "chains"
    /\ analysed < Len(exp_to_analyze)
    /\ LET expiration == exp_to_analyze[analysed + 1]
           last == analysed + 1 = Len(exp_to_analyze)
       IN  /\ io_log' = Append(io_log, << "chain", expiration >>)
           /\ analysed' = analysed + 1
           /\ \E outcome \in ChainOutcomes :
                LET found == IF outcome[1] # "found" THEN << >>
                             ELSE Found(strategy, expiration, Len(all_combinations), outcome[2])
                    pool == all_combinations \o found
                    summary == record_count(engine, analysis_summary, expiration, Len(found))
                IN  /\ chain_log' = Append(chain_log, [expiration |-> expiration,
                                                       outcome |-> outcome[1],
                                                       combinations |-> found])
                    /\ IF outcome[1] = "raises"
                       THEN /\ Raise("analysis raised")
                            /\ UNCHANGED << all_combinations, analysis_summary,
                                            ranked_results, final_results >>
                       ELSE /\ all_combinations' = pool
                            /\ analysis_summary' = summary
                            /\ UNCHANGED fault
                            /\ IF last
                               THEN Finish(pool, summary)
                               ELSE UNCHANGED << pc, returned_at, returned, response,
                                                 ranked_results, final_results >>
    /\ UNCHANGED << engine, strategy, sanVars, genVars, reranked_results, clock,
                    expirations, exp_to_analyze >>

RunNext ==
    \/ FetchPrice
    \/ FetchExpirations
    \/ AnalyzeExpiration

SpecRun == RunInit /\ [][RunNext]_vars

\* the loop over exp_to_analyze makes its next pass
NextPass ==
    /\ pc = "chains"
    /\ analysed < Len(exp_to_analyze)
    /\ analysed' = analysed + 1

\* a run is one call on one thread: once called it keeps executing, and every
\* fetch it waits for either returns or raises
SpecRunFair ==
    /\ SpecRun
    /\ WF_vars(FetchPrice)
    /\ WF_vars(FetchExpirations)
    /\ WF_analysed(NextPass)

\* ---- claims about a run ----

\* the chain fetches of the run so far, in order, by expiration
FetchedExpirations ==
    LET fetches == SelectSeq(io_log, LAMBDA ev : ev[1] = "chain")
    IN  [i \in 1..Len(fetches) |-> fetches[i][2]]

InWindow(exp) == min_dte <= dte(exp, clock) /\ dte(exp, clock) <= max_dte

\* the positions of the expiry list that pass the window
WindowPositions == {k \in 1..Len(expirations) : InWindow(expirations[k])}

\* of those, the first three in list order
SelectedPositions ==
    {k \in WindowPositions : Cardinality({m \in WindowPositions : m < k}) < 3}

\* C15: chain snapshots are fetched only for the first up-to-3 expiries of the
\* expiry list, in list order, whose days-to-expiry lies in [min_dte, max_dte]:
\* at most 3 chain fetches, none repeated, none outside the window, all of the
\* selected ones once the loop has run through, and every one after the spot
\* price and the expiry list were obtained
C15_ChainFetchesFollowSelection ==
    LET fetched == FetchedExpirations
        selected == SelectedPositions
        Nth(j) == CHOOSE k \in selected : Cardinality({m \in selected : m < k}) = j - 1
    IN  /\ Len(fetched) <= 3
        /\ Len(fetched) <= Cardinality(selected)
        /\ \A j \in 1..Len(fetched) :
            /\ fetched[j] = expirations[Nth(j)]
            /\ InWindow(fetched[j])
            /\ \A i \in 1..Len(fetched) : fetched[i] = fetched[j] => i = j
        /\ returned_at \in {"report", "no_valid"} => Len(fetched) = Cardinality(selected)
        /\ \A i \in 1..Len(io_log) :
            io_log[i][1] = "chain" =>
                (i > 2 /\ io_log[1][1] = "history" /\ io_log[2][1] = "options")

\* C15 witness: a reported run whose expiry list starts outside the window and
\* holds more than three expiries inside it, of which three were fetched
C15_Witness ==
    /\ returned_at = "report"
    /\ Cardinality(WindowPositions) > 3
    /\ ~InWindow(expirations[1])
    /\ Len(FetchedExpirations) = 3

\* the combinations the analysed expirations yielded, in the order of analysis
RECURSIVE Yielded(_)
Yielded(n) == IF n = 0 THEN << >> ELSE Yielded(n - 1) \o chain_log[n].combinations

\* the rows a returned report shows
ReportRows == IF engine = "full" THEN returned.table ELSE returned.top_5

\* C16: an analysed expiration whose chain fetch fails, or whose calls or puts
\* are empty after sanitising, contributes no combinations and does not end the
\* run: the loop goes on, the combinations of the other expirations are pooled,
\* a non-empty pool is ranked and reported, and the summary of the text-report
\* engine has an entry for every analysed expiration, 0 for the failed ones and
\* the number of combinations found for the others
C16_FailedExpirationCountsZero ==
    /\ \A i \in 1..Len(chain_log) :
        chain_log[i].outcome \in {"fetch_raises", "empty"} =>
            /\ chain_log[i].combinations = << >>
            /\ (i = Len(chain_log) /\ pc = "returned") =>
                  (i = Len(exp_to_analyze) /\ returned_at \in {"report", "no_valid"})
            /\ (i = Len(chain_log) /\ pc # "returned") => i < Len(exp_to_analyze)
    /\ returned_at \in {"report", "no_valid"} =>
        /\ Len(chain_log) = Len(exp_to_analyze)
        /\ all_combinations = Yielded(Len(chain_log))
        /\ (returned_at = "report") = (all_combinations # << >>)
    /\ returned_at = "report" =>
        /\ ReportRows # << >>
        /\ \A r \in 1..Len(ReportRows) :
            \E k \in 1..Len(all_combinations) :
                /\ ReportRows[r][2] = all_combinations[k].expiration
                /\ ReportRows[r][3] = all_combinations[k].pair
        /\ engine = "full" =>
            /\ Len(returned.analysis_summary) = Len(exp_to_analyze)
            /\ \A i \in 1..Len(exp_to_analyze) :
                returned.analysis_summary[i] =
                    << exp_to_analyze[i], Len(chain_log[i].combinations) >>

\* C16 witness: a text report of three analysed expirations of which the first
\* failed to fetch, the third was empty after sanitising and the second gave one
\* combination
C16_Witness ==
    /\ returned_at = "report"
    /\ engine = "full"
    /\ Len(chain_log) = 3
    /\ chain_log[1].outcome = "fetch_raises"
    /\ Len(chain_log[2].combinations) = 1
    /\ chain_log[3].outcome = "empty"

\* the spot-price fetch gave no data, or the expiry list was empty or its fetch failed
FatalFetch ==
    \/ Len(io_log) >= 1 /\ io_log[1][1] = "history" /\ io_log[1][2] = "empty"
    \/ Len(io_log) >= 2 /\ io_log[2][1] = "options" /\ io_log[2][2] \in {"empty", "raises"}

\* the returned value is a failure / no-data result: it shows no combination
ShowsNoCombination ==
    IF engine = "full"
    THEN returned.table = << >> /\ returned.best = << >> /\ returned.analysis_summary = << >>
    ELSE returned.top_5 = << >> /\ returned.summary[1] \in {"No valid", "Analysis Error:"}

\* C17: when the spot-price fetch yields no data, or the expiry list is empty or
\* its fetch fails, the run has ended with that fetch: it returned a failure or
\* no-data result, fetched no chain snapshot and ranked and reported nothing
C17_FatalFetchEndsRun ==
    FatalFetch =>
        /\ pc = "returned"
        /\ returned_at \in {"no_price", "no_options", "options_failed"}
        /\ ShowsNoCombination
        /\ \A i \in 1..Len(io_log) : io_log[i][1] # "chain"
        /\ chain_log = << >> /\ all_combinations = << >>
        /\ ranked_results = << >> /\ final_results = << >>

\* C17 witness: the price came and the fetch of the expiry list failed
C17_Witness ==
    /\ Len(io_log) = 2
    /\ io_log[1][2] = "data"
    /\ io_log[2][1] = "options" /\ io_log[2][2] = "raises"
    /\ pc = "returned"

\* the return statements of a run, the handler of the outer try among them
ReturnStatements ==
    {"no_price", "no_options", "options_failed", "no_expirations_in_range",
     "no_valid", "report", "error"}

\* C18: whatever the fetches and the analysis do (return data, return nothing,
\* raise at any step), the run comes to an end and hands its caller a value:
\* a report, a no-data message or an error result that carries the fault;
\* no exception leaves run_bullish_analysis / run_bearish_analysis
C18_RunAlwaysReturnsAValue ==
    /\ [](pc # "raised")
    /\ <>(pc = "returned" /\ returned_at \in ReturnStatements)
    /\ [](returned_at = "error" =>
            (fault # "none" /\ (IF engine = "full" THEN returned.text[2]
                                ELSE returned.summary[2]) = fault))

\* C18 witness: the analysis of the second expiration raised after the first
\* gave combinations, and the run returned the error result
C18_Witness ==
    /\ pc = "returned"
    /\ returned_at = "error"
    /\ fault = "analysis raised"
    /\ Len(chain_log) = 2
    /\ all_combinations # << >>

\* the results a run returns when there is no price data or no option expiry
NoDataResults ==
    {NoPriceResult(engine, strategy), NoOptionsResult(engine, strategy),
     OptionsFailedResult(engine, strategy)}

\* every analysed expiration had calls and puts, and no pairing passed the gate
NoValidCombinations ==
    /\ returned_at = "no_valid"
    /\ \A i \in 1..Len(chain_log) : chain_log[i].outcome = "found"

\* C19: a run that analysed expirations and found no valid combination returns
\* a result that no run without price data or without option expiries returns,
\* in every engine variant
C19_NoValidDistinctFromNoData ==
    NoValidCombinations => returned \notin NoDataResults

\* C19, text-report engine only: its no-valid message differs from its three
\* no-data messages
C19_FullEngineDistinct ==
    (engine = "full" /\ NoValidCombinations) => returned \notin NoDataResults

\* ======================================================================
\* Delta of the call and of the put of one contract
\* ======================================================================

\* the dividend yields q the deltas are computed at, in ten-thousandths; the
\* rate is r = 0.045 + q, so that d1 is the tabulated one
DividendYields == {0, 5000}

\* np.exp(-q * T), rounded to hundredths
exp_neg_qT(q, T) ==
    CASE q = 0 -> Num(1)
      [] q = 5000 /\ T = Rat(6, 73) -> Rat(96, 100)
      [] q = 5000 /\ T = Rat(1, 8760) -> Num(1)
      [] q = 5000 /\ T = Num(0) -> Num(1)

\* bs_delta(S, K, T, r, sigma, option_type, q) with a dividend yield
bs_delta_q(S, K, T, sigma, option_type, q) ==
    IF FLe(T, Num(0)) THEN bs_delta(S, K, T, sigma, option_type)
    ELSE FMul(exp_neg_qT(q, T), bs_delta(S, K, T, sigma, option_type))

\* strike and implied volatility of the contracts priced
PricedContracts ==
    {<< 11000, 30 >>, << 10000, 30 >>, << 17500, 60 >>, << 12500, 60 >>, << 12500, 30 >>,
     << 9000, 35 >>, << 10000, 35 >>, << 2500, 60 >>, << 9500, 35 >>, << 7500, 30 >>,
     << 11000, 0 >>, << 10000, 0 >>, << 9000, 0 >>,
     << 11000, -30 >>, << 10000, -30 >>, << 9000, -30 >>}

\* time to expiry in years: 30 days, the one-hour floor, none, and a day past
PricedTimes == {Rat(6, 73), Rat(1, 8760), Num(0), Rat(-1, 365)}

\* calls holds the contract to price with its T and q; combinations receives
\* the two deltas and the vega
DeltaInit ==
    /\ engine \in Engines
    /\ strategy = "bullish"
    /\ pc = "delta"
    /\ input_df = Frame(Fields, << >>)
    /\ filtered = << >>
    /\ fault = "none"
    /\ \E c \in PricedContracts, T \in PricedTimes, q \in DividendYields :
        calls = << [strike |-> Num(c[1]), impliedVolatility |-> Num(c[2]), T |-> T, q |-> q] >>
    /\ puts = << >>
    /\ underlying_price = Num(10000)
    /\ days_to_exp = 0
    /\ combinations = << >>
    /\ all_combinations = << >>
    /\ ranked_results = << >>
    /\ final_results = << >>
    /\ reranked_results = << >>
    /\ NoRun

\* bs_delta(..., 'call', q), bs_delta(..., 'put', q) and bs_vega on the contract
ComputeDeltas ==
    /\ pc = "delta"
    /\ LET c == calls[1]
       IN  combinations' =
             << [call_delta |-> bs_delta_q(underlying_price, c.strike, c.T,
                                           c.impliedVolatility, "call", c.q),
                 put_delta |-> bs_delta_q(underlying_price, c.strike, c.T,
                                          c.impliedVolatility, "put", c.q),
                 vega |-> bs_vega(underlying_price, c.strike, c.T, c.impliedVolatility)] >>
    /\ pc' = "priced"
    /\ UNCHANGED << engine, strategy, fault, sanVars, calls, puts, underlying_price,
                    days_to_exp, rankVars, runVars >>

DeltaNext == ComputeDeltas

SpecDelta == DeltaInit /\ [][DeltaNext]_vars

\* C20: for a contract with T > 0 and sigma > 0 (S and K are positive), in
\* either engine, the delta of the call minus the delta of the put is e^(-qT),
\* and exactly 1 when q = 0
C20_PutCallDeltaParity ==
    (pc = "priced" /\ FGt(calls[1].T, Num(0)) /\ FGt(calls[1].impliedVolatility, Num(0))) =>
        LET difference == FSub(combinations[1].call_delta, combinations[1].put_delta)
        IN  /\ FEq(difference, FMul(exp_neg_qT(calls[1].q, calls[1].T), Num(GreekUnit)))
            /\ calls[1].q = 0 => FEq(difference, Num(GreekUnit))

\* C20 witness: the deltas of the 110.00 contract at 30 days with a dividend
\* yield, neither of them 0 or -1
C20_Witness ==
    /\ pc = "priced"
    /\ calls[1].strike = Num(11000) /\ calls[1].T = Rat(6, 73) /\ calls[1].q = 5000
    /\ FGt(combinations[1].call_delta, Num(0))
    /\ FLt(combinations[1].put_delta, Num(0))
    /\ FGt(combinations[1].put_delta, Num(-GreekUnit))

\* the contract priced and what came out
Priced == pc = "priced"
PricedAt == calls[1]
Greeks == combinations[1]

\* the cdf of d1 saturated to +infinity or -infinity, in ten-thousandths
SaturatedCdf == IF FGt(underlying_price, PricedAt.strike) THEN GreekUnit ELSE 0

\* C21: in the degenerate regime the Greeks are their limit values: vega is 0
\* when T <= 0 or sigma <= 0; with T <= 0 the delta of a call is 1 if S > K,
\* the delta of a put is -1 if S < K, and the delta is 0 otherwise (S = K
\* included); with T > 0 and sigma <= 0 the delta is finite, in [-1, 1], and
\* is the one of d1 = +infinity (S > K) or -infinity (otherwise)
C21_DegenerateGreeksAreLimits ==
    Priced =>
        /\ (FLe(PricedAt.T, Num(0)) \/ FLe(PricedAt.impliedVolatility, Num(0))) =>
              FEq(Greeks.vega, Num(0))
        /\ FLe(PricedAt.T, Num(0)) =>
              /\ FEq(Greeks.call_delta,
                     IF FGt(underlying_price, PricedAt.strike) THEN Num(GreekUnit) ELSE Num(0))
              /\ FEq(Greeks.put_delta,
                     IF FLt(underlying_price, PricedAt.strike) THEN Num(-GreekUnit) ELSE Num(0))
        /\ (FGt(PricedAt.T, Num(0)) /\ FLe(PricedAt.impliedVolatility, Num(0))) =>
              /\ FEq(Greeks.call_delta,
                     FMul(exp_neg_qT(PricedAt.q, PricedAt.T), Num(SaturatedCdf)))
              /\ FEq(Greeks.put_delta,
                     FMul(exp_neg_qT(PricedAt.q, PricedAt.T), Num(SaturatedCdf - GreekUnit)))
              /\ FLe(Num(-GreekUnit), Greeks.call_delta) /\ FLe(Greeks.call_delta, Num(GreekUnit))
              /\ FLe(Num(-GreekUnit), Greeks.put_delta) /\ FLe(Greeks.put_delta, Num(GreekUnit))

\* C21 witness: an expired contract struck at the spot has been priced
C21_Witness ==
    /\ Priced
    /\ FLe(PricedAt.T, Num(0))
    /\ FEq(PricedAt.strike, underlying_price)
    /\ FGt(PricedAt.impliedVolatility, Num(0))

\* ======================================================================
\* The report: table, labels, and what the web boundary makes of it
\* ======================================================================

\* the composite score the engine ranked the combination by
RankingScore(row) == IF engine = "full" THEN row.total_score ELSE score(row)

\* the first min(n, 5) rows are numbered from 1, their scores do not increase,
\* and the last column is the score of the combination of the row
TableShowsRanking(rows, results) ==
    /\ Len(rows) = (IF Len(results) < TopRows THEN Len(results) ELSE TopRows)
    /\ \A i \in 1..Len(rows) :
        /\ rows[i][1] = i
        /\ rows[i][2] = results[i].expiration /\ rows[i][3] = results[i].pair
        /\ rows[i][7] = Fixed(RankingScore(results[i]), 1000)
        /\ \A j \in (i + 1)..Len(rows) :
            FGe(RankingScore(results[i]), RankingScore(results[j]))

\* C22: in every report the top-5 table has min(n, 5) rows for n final
\* combinations, row i carries rank i, the rows are in descending order of the
\* composite score used for ranking, and the last column of each row is that
\* composite score of the combination of the row, in both engines
C22_TableShowsRankAndScore ==
    returned_at = "report" => TableShowsRanking(ReportRows, final_results)

\* C22, text-report engine only: the table of format_text_report shows rank
\* and total_score
C22_TextReportTable ==
    (returned_at = "report" /\ engine = "full") =>
        TableShowsRanking(ReportRows, final_results)

\* the lines of the top recommendation in a returned report
BestShown == IF engine = "full" THEN returned.best[1] ELSE returned.summary[2]

\* C24: in every report the net-cost label is CREDIT (CR in the table) exactly
\* when net_cost < 0 and DEBIT (DB) otherwise, net_cost = 0 included, the
\* amount shown is |net_cost|, and the label of the top recommendation agrees
\* with the label of table row 1
C24_CostLabelFollowsSign ==
    returned_at = "report" =>
        /\ \A i \in 1..Len(ReportRows) :
            /\ ReportRows[i][4].label = (IF FLt(final_results[i].net_cost, Num(0)) THEN "CR" ELSE "DB")
            /\ ReportRows[i][4].amount = FAbs(final_results[i].net_cost)
        /\ BestShown.cost_display.label =
              (IF FLt(final_results[1].net_cost, Num(0)) THEN "CREDIT" ELSE "DEBIT")
        /\ BestShown.cost_display.amount = FAbs(final_results[1].net_cost)
        /\ (BestShown.cost_display.label = "CREDIT") = (ReportRows[1][4].label = "CR")

\* C24 witness: a report whose first row costs nothing and which has a credit
\* and a debit below it
C24_Witness ==
    /\ returned_at = "report"
    /\ Len(ReportRows) = 3
    /\ FEq(final_results[1].net_cost, Num(0))
    /\ \E i, j \in 2..3 : /\ FLt(final_results[i].net_cost, Num(0))
                          /\ FGt(final_results[j].net_cost, Num(0))

\* the lines the parser filed under summary, risk and pricing
FiledLines == response.summary \o response.risk \o response.pricing_comparison

\* C23: for every report format_text_report produces from n >= 1 final
\* combinations, parse_analysis_result returns a top_5 of exactly min(n, 5)
\* rows, each holding the 7 fields of the corresponding table row in order, and
\* no table row ends up in the summary, risk or pricing section
C23_ParsedTableIsReportTable ==
    (returned_at = "report" /\ engine = "full") =>
        /\ Len(response.top_5) = Len(returned.table)
        /\ Len(returned.table) = (IF Len(final_results) < TopRows THEN Len(final_results) ELSE TopRows)
        /\ \A i \in 1..Len(response.top_5) : response.top_5[i] = returned.table[i]
        /\ \A k \in 1..Len(FiledLines) : FiledLines[k].cells = << >>

\* the result is the one of the boundary's `except Exception` clause
IsAnalysisError(result) ==
    /\ result.summary # << >>
    /\ Contains(result.summary[1].words, << "Analysis Error:" >>)

\* C27: at the FastAPI boundary, which calls the dict-returning engine, a run
\* that finds at least one valid combination is answered with that run's
\* report: the top_5 of the response is the non-empty top_5 the engine
\* returned, and its summary is not an 'Analysis Error' text
C27_EndpointCarriesTheReport ==
    (engine = "light" /\ returned_at = "report") =>
        /\ response.top_5 # << >>
        /\ response.top_5 = returned.top_5
        /\ ~IsAnalysisError(response)

\* C28: when the run of the text-report engine ends with its
\* no-valid-strategies message, parse_analysis_result returns the no-result
\* object: summary 'No valid strategies found for these parameters.', empty
\* top_5; the summary is never empty
C28_NoValidMessageIsParsed ==
    (engine = "full" /\ returned_at = "no_valid") =>
        /\ response = NoResultObject
        /\ response.summary # << >>

\* ======================================================================
\* The sanitizer as a gate
\* ======================================================================

\* the contracts an engine variant retains of a raw frame
KeptBy(eng, df) ==
    LET out == IF eng = "full" THEN process_df(df) ELSE process_options(df)
    IN  {out.rows[i] : i \in 1..Len(out.rows)}

\* the retained form of a raw row
KeptForm(eng, df, row) == IF eng = "full" THEN row ELSE LightRecord(df, row)

\* the frame that holds `row` alone
Alone(df, row) == [columns |-> df.columns, rows |-> << row >>]

\* every raw contract whose fields are all present and which passes the
\* predicate is retained unchanged, and a contract is retained from the chain
\* exactly when it is retained from the chain that holds it alone
PassingContractsRetained ==
    \A i \in 1..Len(input_df.rows) :
        LET row == input_df.rows[i] IN
        /\ (~Malformed(input_df, row) /\ SpecPredicate(row)) => row \in Retained
        /\ (KeptForm(engine, input_df, row) \in Retained)
              <=> (KeptForm(engine, input_df, row) \in KeptBy(engine, Alone(input_df, row)))

\* C25: the filter predicate is the sole gate of the sanitizer: a raw contract
\* with all fields present that passes it is retained with its fields
\* unchanged, whether a contract is retained does not depend on the other
\* contracts of the chain or on their order, and the two engine variants
\* retain the same set of contracts for the same raw chain
C25_PredicateIsTheSoleGate ==
    pc = "sanitized" =>
        /\ PassingContractsRetained
        /\ KeptBy("full", input_df) = KeptBy("light", input_df)

\* C25 without the comparison of the engines
C25_PassingContractsRetained ==
    pc = "sanitized" => PassingContractsRetained

\* C25 on chains of contracts that pass the predicate or fail it on numbers
\* with a positive ask
C25_EnginesAgreeOnPositiveAsks ==
    (pc = "sanitized" /\ WellFormedFrame(input_df)
        /\ \A i \in 1..Len(input_df.rows) : input_df.rows[i].ask.n > 0)
        => KeptBy("full", input_df) = KeptBy("light", input_df)

\* ======================================================================
\* Days to expiry: selected on, and reported
\* ======================================================================

\* the combinations of the final report carry a days_to_exp inside the window,
\* equal to the number their expiration was selected on
ReportedDaysInWindow ==
    /\ \A i \in 1..Len(final_results) :
        /\ min_dte <= final_results[i].days_to_exp
        /\ final_results[i].days_to_exp <= max_dte
        /\ final_results[i].days_to_exp = dte(final_results[i].expiration, clock)
    /\ min_dte <= BestShown.days_to_exp /\ BestShown.days_to_exp <= max_dte

\* C26: every combination of a run's final report has a reported days_to_exp
\* (the calendar-day difference between the expiration date and today, as the
\* generator computes it) within [min_dte, max_dte]: the days to expiry an
\* expiry is selected on and the days_to_exp reported for it are the same number
C26_ReportedDaysAreSelectionDays ==
    returned_at = "report" => ReportedDaysInWindow

\* C26 for runs whose clock read midnight sharp
C26_AtMidnight ==
    (returned_at = "report" /\ clock = "midnight") => ReportedDaysInWindow

\* ======================================================================
\* The time to expiry the generator prices with
\* ======================================================================

\* the test of the degenerate branches of d1, bs_vega and bs_delta
DegenerateBranch(T, sigma) == FLe(T, Num(0)) \/ FLe(sigma, Num(0))

\* the legs the generator prices
PricedLegs == Range(calls) \cup Range(puts)

\* C29: the generator prices with T = max(days_to_expiry / 365, 1 / (365 * 24)),
\* which is positive for every expiration date, today and past dates included,
\* so bs_delta and bs_vega are never called with T <= 0, and for a leg with the
\* sanitizer's implied_volatility > 0.01 no degenerate branch is taken
C29_GeneratorTimeIsPositive ==
    pc = "generated" =>
        LET T == TimeToExpiry(days_to_exp) IN
        /\ FGt(T, Num(0))
        /\ FGe(T, Rat(1, 365 * 24)) /\ FGe(T, Rat(days_to_exp, 365))
        /\ T \in {Rat(1, 365 * 24), Rat(days_to_exp, 365)}
        /\ \A leg \in PricedLegs :
            (IsNum(leg.impliedVolatility) /\ FGt(leg.impliedVolatility, Num(IvMin)))
                => ~DegenerateBranch(T, leg.impliedVolatility)

\* C29 witness: a chain of one call and one put has been priced for an
\* expiration date of yesterday
C29_Witness ==
    /\ pc = "generated"
    /\ days_to_exp < 0
    /\ fault = "none"
    /\ Len(calls) = 1 /\ Len(puts) = 1
    /\ \A leg \in PricedLegs : IsNum(leg.impliedVolatility)

\* ======================================================================
\* The per-expiration cap and the best candidate
\* ======================================================================

\* the first entry of the final result scores as high as any pooled candidate,
\* and a candidate the cap dropped scores no higher than any kept candidate of
\* its expiration
CapKeepsTheBest ==
    /\ \A k \in 1..Len(ranked_results) :
        FLe(ranked_results[k].total_score, final_results[1].total_score)
    /\ \A k \in 1..Len(ranked_results) :
        ranked_results[k] \notin Range(final_results) =>
            \A i \in 1..Len(final_results) :
                final_results[i].expiration = ranked_results[k].expiration =>
                    FLe(ranked_results[k].total_score, final_results[i].total_score)

\* C30: the per-expiration cap never removes the best candidate: in the
\* text-report engine the top recommendation has a total_score equal to the
\* maximum total_score of the whole pool, and every combination the cap dropped
\* has a total_score no greater than that of each of the 3 kept for its expiration
C30_CapKeepsBestCandidate ==
    (Reported /\ engine = "full" /\ final_results # << >>) => CapKeepsTheBest

\* C30 for pools whose total scores are all numbers
C30_OnNumericScores ==
    (Reported /\ engine = "full" /\ final_results # << >>
        /\ \A k \in 1..Len(ranked_results) : IsNum(ranked_results[k].total_score))
        => CapKeepsTheBest

====
